---- MODULE Spec2Model ----
(***************************************************************************)
(* Conversation workflow engine of workflows-and-agents.                   *)
(*                                                                         *)
(* SpecSupport : the customer-support gateway (handleMessage) driving the  *)
(*               support graph, one run per received client message.       *)
(* SpecChain   : WorkflowService.promptChain.                              *)
(* SpecRouters : the router functions of every conditional edge, applied   *)
(*               to the states their graphs can hand them.                 *)
(***************************************************************************)
EXTENDS Integers, Sequences, FiniteSets, TLC

\* ------------------------------------------------------------------ bounds
\* Number of client messages handled (handleMessage calls), possibly at once.
MaxCalls == 2
\* Longest joke text the model returns in promptChain.
MaxJokeLen == 4
\* Most sections the planner of orchestratorWorker returns.
MaxSections == 3
\* Most model calls followed in a run of the agent graph.
MaxTurns == 2

Calls == 1..MaxCalls

\* ------------------------------------------------------- graph vocabulary
START == "__start__"
END == "__end__"
INTERRUPT == "__interrupt__"
\* JavaScript null / undefined of a state field.
NULL == "null"

RepresentativeType == {"BILLING", "TECHNICAL", "REFUND", "RESPOND"}

\* nextRepresentative as a support stage can leave it.
RoutedRepresentatives == RepresentativeType \cup {NULL}

\* Text of a model reply (its wording is irrelevant to the engine).
ReplyTexts == {"reply"}
\* Text of a client message.
UserTexts == {"hello"}
RefundProcessed == "Refund processed!"

Message(role, content) == [role |-> role, content |-> content]

\* Content of a categorization reply: syntax = FALSE is text JSON.parse rejects;
\* isNull is the text null, which parses to a value no property can be read
\* of; otherwise a value that has (has = TRUE) or lacks the nextRepresentative
\* key.
CatText(syntax, has, value) ==
    [syntax |-> syntax, isNull |-> FALSE, has |-> has, value |-> value]
MalformedJson == CatText(FALSE, FALSE, NULL)
EmptyObject == CatText(TRUE, FALSE, NULL)
NullJson == [syntax |-> TRUE, isNull |-> TRUE, has |-> FALSE, value |-> NULL]
CatContents ==
    {MalformedJson, EmptyObject, NullJson}
        \cup {CatText(TRUE, TRUE, v) : v \in RepresentativeType}

\* A model call: it fails (ok = FALSE) or returns content.
ModelFailure == [ok |-> FALSE, content |-> NULL]
ModelReplies == {ModelFailure} \cup {[ok |-> TRUE, content |-> t] : t \in ReplyTexts}
CatFailure == [ok |-> FALSE, content |-> MalformedJson]
CatReplies == {CatFailure} \cup {[ok |-> TRUE, content |-> c] : c \in CatContents}
\* The categorization replies tried at billing_support: malformed, null,
\* without the key (outside its enumeration), and the two values of its
\* enumeration.
BillingCatReplies ==
    {r \in CatReplies : r.content.value \in {NULL, "REFUND", "RESPOND"}}

\* JSON.parse of a categorization reply, then the read of .nextRepresentative:
\* JSON.parse throws SyntaxError, or the read of a property of null throws
\* TypeError, or the read gives the key's value (undefined without the key).
JSONparse(text) ==
    IF ~text.syntax
    THEN [ok |-> FALSE, error |-> "SyntaxError", has |-> FALSE,
          nextRepresentative |-> NULL]
    ELSE IF text.isNull
    THEN [ok |-> FALSE, error |-> "TypeError", has |-> FALSE,
          nextRepresentative |-> NULL]
    ELSE [ok |-> TRUE, error |-> "none", has |-> text.has,
          nextRepresentative |-> IF text.has THEN text.value ELSE NULL]

\* ---------------------------------------------------- stage results
\* What a stage function does: returns an update, throws, or raises the
\* interrupt.  An update lists the messages to add and what it holds under the
\* nextRepresentative key: no such key ("absent"), the key with an undefined
\* value ("undefined"), or the key with a value ("value").
Update(msgs, key, rep) ==
    [kind |-> "update", messages |-> msgs, key |-> key,
     nextRepresentative |-> rep, error |-> "none"]
ThrowAsUpdate(err) ==
    [kind |-> "update", messages |-> <<>>, key |-> "absent",
     nextRepresentative |-> NULL, error |-> err]
Throw(err) ==
    [kind |-> "throw", messages |-> <<>>, key |-> "absent",
     nextRepresentative |-> NULL, error |-> err]
NodeInterrupt ==
    [kind |-> "interrupt", messages |-> <<>>, key |-> "absent",
     nextRepresentative |-> NULL, error |-> "Human authorization required."]

\* The history a stage passes to the model: without its last message when
\* that is an assistant's.
trimNever(messages) == messages
trimMessageHistory(messages) ==
    IF messages # <<>> /\ messages[Len(messages)].role = "assistant"
    THEN SubSeq(messages, 1, Len(messages) - 1)
    ELSE messages

\* JSON.stringify of a number a tool returned: its numeral, or the text null
\* for Infinity and NaN (a zero denominator).
JSONstringify(number) ==
    IF number.den = 0 THEN "null" ELSE [numeral |-> number]
\* typeof content === 'string': the model and the human write text, a tool
\* message holds the number its tool returned.
ensureStringContent(msg) ==
    IF msg.role = "tool" THEN JSONstringify(msg.content) ELSE msg.content
\* The agent's llmCall rebuilds each message of the state with its content
\* made a string: an AI message keeps its tool calls, a tool message its
\* tool_call_id, any other is a human message.
createTypedMessage(msg) ==
    [role |-> IF msg.role \in {"ai", "tool"} THEN msg.role ELSE "human",
     content |-> ensureStringContent(msg),
     tool_calls |-> IF msg.role = "ai" THEN msg.tool_calls ELSE <<>>,
     tool_call_id |-> IF msg.role = "tool" THEN msg.tool_call_id ELSE 0]
SystemMessage(content) ==
    [role |-> "system", content |-> content, tool_calls |-> <<>>, tool_call_id |-> 0]

\* llmWithTools.invoke([systemMessage, ...messages])
llmCallInput(state) ==
    <<SystemMessage("llmCall")>> \o
        [i \in 1..Len(state.messages) |-> createTypedMessage(state.messages[i])]

\* What a stage sends to the model for its reply: its system template, then
\* the messages (initial_support), the trimmed history, or the rebuilt
\* messages (the agent's llmCall).  The other stages call no model.
ModelInput(stage, state) ==
    CASE stage = "initial_support" ->
            <<Message("system", stage)>> \o state.messages
      [] stage \in {"billing_support", "technical_support"} ->
            <<Message("system", stage)>> \o trimMessageHistory(state.messages)
      [] stage = "llmCall" -> llmCallInput(state)
      [] OTHER -> <<>>

initialSupport(state, supportResponse, categorizationResponse) ==
    IF ~supportResponse.ok \/ ~categorizationResponse.ok
    THEN Throw("ExternalCallFailure")
    ELSE LET categorizationOutput == JSONparse(categorizationResponse.content)
         IN IF ~categorizationOutput.ok
            THEN Throw(categorizationOutput.error)
            ELSE Update(<<Message("assistant", supportResponse.content)>>,
                        IF categorizationOutput.has THEN "value" ELSE "undefined",
                        categorizationOutput.nextRepresentative)

billingSupport(state, billingRepResponse, categorizationResponse) ==
    IF ~billingRepResponse.ok \/ ~categorizationResponse.ok
    THEN Throw("ExternalCallFailure")
    ELSE LET categorizationOutput == JSONparse(categorizationResponse.content)
         IN IF ~categorizationOutput.ok
            THEN Throw(categorizationOutput.error)
            ELSE Update(<<Message("assistant", billingRepResponse.content)>>,
                        IF categorizationOutput.has THEN "value" ELSE "undefined",
                        categorizationOutput.nextRepresentative)

technicalSupportSilent(state, response) ==
    IF ~response.ok
    THEN Throw("ExternalCallFailure")
    ELSE Update(<<>>, "absent", NULL)

technicalSupport(state, response) ==
    IF ~response.ok
    THEN Throw("ExternalCallFailure")
    ELSE Update(<<Message("assistant", response.content)>>, "absent", NULL)

handleRefundAlways(state) ==
    Update(<<Message("assistant", RefundProcessed)>>, "absent", NULL)

handleRefund(state) ==
    IF ~state.refundAuthorized
    THEN NodeInterrupt
    ELSE Update(<<Message("assistant", RefundProcessed)>>, "absent", NULL)

\* ---------------------------------------------------- conditional edges
routeInitialSupportSwapped(state) ==
    CASE state.nextRepresentative = "BILLING" -> "technical"
      [] state.nextRepresentative = "TECHNICAL" -> "billing"
      [] OTHER -> "conversational"

routeInitialSupport(state) ==
    CASE state.nextRepresentative = "BILLING" -> "billing"
      [] state.nextRepresentative = "TECHNICAL" -> "technical"
      [] OTHER -> "conversational"

InitialSupportEnds ==
    [billing |-> "billing_support", technical |-> "technical_support",
     conversational |-> END]

routeBillingSupportAlways(state) == "refund"

routeBillingSupport(state) ==
    IF state.nextRepresentative = "REFUND" THEN "refund" ELSE "end"

BillingSupportEndsLoop == [refund |-> "handle_refund", end |-> "billing_support"]
BillingSupportEnds == [refund |-> "handle_refund", end |-> END]

\* A conditional edge looks the router's value up in its table; a value the
\* table lacks has no destination and fails the task that evaluated it.
Route(ends, key) ==
    IF key \in DOMAIN ends
    THEN [ok |-> TRUE, dest |-> ends[key]]
    ELSE [ok |-> FALSE, dest |-> "none"]

\* ---------------------------------------------------- state merge
\* The reducer of a messages field.  Every message a stage returns is a new
\* one (its id matches none the state holds), so the reducer adds it at the end.
messagesReplace(left, right) == right
messagesStateReducer(left, right) == left \o right

\* messages: append reducer; nextRepresentative: last value; a stage's update
\* carries no refundAuthorized.  A key written with an undefined value either
\* leaves the field or clears it (keep), as the library release decides.
ApplyUpdateAuthorizing(state, upd, keep) ==
    [messages |-> messagesStateReducer(state.messages, upd.messages),
     nextRepresentative |-> state.nextRepresentative,
     refundAuthorized |-> upd.nextRepresentative = "REFUND"]
ApplyUpdate(state, upd, keep) ==
    [messages |-> messagesStateReducer(state.messages, upd.messages),
     nextRepresentative |->
        CASE upd.key = "value" -> upd.nextRepresentative
          [] upd.key = "undefined" ->
                IF keep THEN state.nextRepresentative ELSE NULL
          [] OTHER -> state.nextRepresentative,
     refundAuthorized |-> state.refundAuthorized]

\* ---------------------------------------------------- client payloads
\* A payload carries a message ("" when it has none) and, as a resume request
\* would, a thread id (0 when it has none) and an authorization.
Payload(message, thread, authorization) ==
    [message |-> message, threadId |-> thread, authorization |-> authorization]
NoPayload == Payload("", 0, FALSE)

\* The message handleMessage takes from the payload, and its test of it.
ExtractMessage(payload) == payload.message
Usable(message) == message # ""

\* Calls are numbered in the order the gateway receives them.
\* uuidv4(): the id drawn by call c; distinct calls draw distinct ids.
Uuid(c) == c

\* The graph a call runs against: its entry stage and its initial input.
EntryNode == "initial_support"
InitialInput(message) ==
    [messages |-> <<Message("user", message)>>,
     nextRepresentative |-> NULL,
     refundAuthorized |-> FALSE]
NoValues == [messages |-> <<>>, nextRepresentative |-> NULL, refundAuthorized |-> FALSE]

\* graph(): every call builds a graph around a MemorySaver of its own.
NewSaver == [live |-> TRUE, store |-> {}]
NoSaver == [live |-> FALSE, store |-> {}]
Checkpoint(thread, values, next) ==
    [thread_id |-> thread, values |-> values, next |-> next]
\* put: the thread's latest checkpoint replaces its previous one.
Put(sv, cp) ==
    [sv EXCEPT !.store = {x \in @ : x.thread_id # cp.thread_id} \cup {cp}]
\* The saver is a local of handleMessage: no reference outlives the call.
Drop(sv) == [sv EXCEPT !.live = FALSE]

\* ---------------------------------------------------- stream chunks, events
Chunk(node, upd) == [node |-> node, messages |-> upd.messages]
InterruptChunk == [node |-> INTERRUPT, messages |-> <<>>]

\* nodeName.replace('_', ' ').toUpperCase(): the first underscore only.
Representative(nodeName) ==
    CASE nodeName = "initial_support" -> "INITIAL SUPPORT"
      [] nodeName = "billing_support" -> "BILLING SUPPORT"
      [] nodeName = "technical_support" -> "TECHNICAL SUPPORT"
      [] nodeName = "handle_refund" -> "HANDLE REFUND"
      [] nodeName = INTERRUPT -> " _INTERRUPT__"
      [] OTHER -> nodeName

extractMessageContent(step) ==
    [content |-> IF step.messages = <<>> THEN "" ELSE step.messages[1].content,
     representative |-> Representative(step.node)]

ResponseEvent(thread, count, step) ==
    LET response == extractMessageContent(step)
    IN [type |-> "response", threadId |-> thread, stepCount |-> count,
        content |-> response.content, representative |-> response.representative,
        details |-> "none"]
CompletedEventNext(thread, count) ==
    [type |-> "completed", threadId |-> thread, stepCount |-> count + 1,
     content |-> "", representative |-> "none", details |-> "none"]
CompletedEvent(thread, count) ==
    [type |-> "completed", threadId |-> thread, stepCount |-> count,
     content |-> "", representative |-> "none", details |-> "none"]
ErrorAsResponse(content, details) ==
    [type |-> "response", threadId |-> 0, stepCount |-> 0,
     content |-> content, representative |-> "none", details |-> details]
ErrorEvent(content, details) ==
    [type |-> "error", threadId |-> 0, stepCount |-> 0,
     content |-> content, representative |-> "none", details |-> details]

\* ---------------------------------------------------- support gateway state
VARIABLES
    gw,         \* gw[c]: "idle", "graph" (at 'await graph()'), "streaming" or
                \* "returned": handleMessage call c
    payload,    \* payload[c]: what call c received
    threadId,   \* threadId[c]: the thread id call c created (0: none)
    saver,      \* saver[c]: the MemorySaver of call c's graph
    loop,       \* loop[c]: the run of call c's graph
    stream,     \* stream[c]: chunks the run has yielded and the call not yet read
    stepCount,  \* stepCount[c]
    events,     \* events[c]: what call c has emitted, in order
    trace,      \* trace[c]: the stage executions of call c's run, in order
    connected,  \* the sockets connected to the gateway's namespace
    sender,     \* sender[c]: the client whose message call c handles
    delivered,  \* delivered[c][i]: the sockets events[c][i] was sent to
    notices     \* the 'connection' events emitted, each with the sockets sent to

clientVars == <<connected, sender, notices>>
supportVars ==
    <<gw, payload, threadId, saver, loop, stream, stepCount, events, trace,
      connected, sender, delivered, notices>>

VARIABLES
    chain,      \* the run of promptChain's graph
    rt,         \* the last router evaluation: router, its input, its value
    par,        \* the run of parallelization's graph
    orch,       \* the run of orchestratorWorker's graph
    st,         \* the last stage application: stage, state before, state after
    opt,        \* the run of evaluatorOptimizer's graph
    agent,      \* the run of agent's graph
    mg,         \* the last merge of an update into a state field
    rw,         \* the run of routing's graph
    gate        \* the last payload a gateway's handleMessage received

\* What the support gateway never touches.
offSupport ==
    <<chain, rt, par, orch, st, opt, agent, mg, rw, gate>>
\* What promptChain never touches.
offChain ==
    <<supportVars, rt, par, orch, st, opt, agent, mg, rw, gate>>
\* What a router evaluation never touches.
offRouters ==
    <<supportVars, chain, par, orch, st, opt, agent, mg, rw, gate>>
\* What parallelization never touches.
offParallel ==
    <<supportVars, chain, rt, orch, st, opt, agent, mg, rw, gate>>
\* What orchestratorWorker never touches.
offOrchestrator ==
    <<supportVars, chain, rt, par, st, opt, agent, mg, rw, gate>>
\* What a stage application never touches.
offStages ==
    <<supportVars, chain, rt, par, orch, opt, agent, mg, rw, gate>>
\* What evaluatorOptimizer never touches.
offOptimizer ==
    <<supportVars, chain, rt, par, orch, st, agent, mg, rw, gate>>
\* What agent never touches.
offAgent ==
    <<supportVars, chain, rt, par, orch, st, opt, mg, rw, gate>>
\* What a merge never touches.
offMerge ==
    <<supportVars, chain, rt, par, orch, st, opt, agent, rw, gate>>

\* What routing never touches.
offRouting ==
    <<supportVars, chain, rt, par, orch, st, opt, agent, mg, gate>>
\* What the payload test of a gateway never touches.
offGate ==
    <<supportVars, chain, rt, par, orch, st, opt, agent, mg, rw>>

vars ==
    <<supportVars, chain, rt, par, orch, st, opt, agent, mg, rw, gate>>

NoLoop ==
    [phase |-> "none", node |-> START, values |-> NoValues,
     outcome |-> "none", error |-> "none"]

NoCat == CatText(FALSE, FALSE, "n/a")
Executed(node, state, cat, result) ==
    [node |-> node, refundAuthorized |-> state.refundAuthorized,
     before |-> state, cat |-> cat, result |-> result.kind, error |-> result.error]

\* The ids the server gives the sockets that connect, in the order it gives them.
ClientIds == <<"A", "B">>
Clients == {ClientIds[i] : i \in DOMAIN ClientIds}
NoClient == "none"
ConnectionEvent(id) == [type |-> "connection", content |-> id]
\* this.server.emit(event, data): to every socket connected to the namespace.
serverEmit(sockets) == sockets
\* this.server.emit('message', event) inside call c.
Emit(c, event) ==
    /\ events' = [events EXCEPT ![c] = Append(@, event)]
    /\ delivered' = [delivered EXCEPT ![c] = Append(@, serverEmit(connected))]

InitSupport ==
    /\ gw = [c \in Calls |-> "idle"]
    /\ payload = [c \in Calls |-> NoPayload]
    /\ threadId = [c \in Calls |-> 0]
    /\ saver = [c \in Calls |-> NoSaver]
    /\ loop = [c \in Calls |-> NoLoop]
    /\ stream = [c \in Calls |-> <<>>]
    /\ stepCount = [c \in Calls |-> 0]
    /\ events = [c \in Calls |-> <<>>]
    /\ trace = [c \in Calls |-> <<>>]
    /\ connected = {}
    /\ sender = [c \in Calls |-> NoClient]
    /\ delivered = [c \in Calls |-> <<>>]
    /\ notices = <<>>

\* Threads a client knows to await authorization: their run was suspended and
\* their id was sent out with the call's events.
SuspendedThreads ==
    {threadId[c] : c \in {d \in Calls : gw[d] = "returned" /\ loop[d].outcome = "interrupted"}}

\* What a client sends: a message, nothing usable, or a resume request naming
\* a suspended thread with the authorization granted.
Payloads ==
    {Payload(m, 0, FALSE) : m \in UserTexts \cup {""}}
        \cup {Payload(m, t, TRUE) : m \in UserTexts, t \in SuspendedThreads}

\* handleMessage up to 'await graph()': the payload test, then graph(), which
\* creates the graph and its MemorySaver; the call then waits for its next
\* turn.  The message comes from a connected client.
handleMessage(c, client, p) ==
    /\ gw[c] = "idle"
    /\ \A d \in Calls : d < c => gw[d] # "idle"
    /\ client \in connected
    /\ payload' = [payload EXCEPT ![c] = p]
    /\ sender' = [sender EXCEPT ![c] = client]
    /\ IF ~Usable(ExtractMessage(p))
       THEN /\ Emit(c, ErrorEvent("Invalid or no message provided", "none"))
            /\ gw' = [gw EXCEPT ![c] = "returned"]
            /\ UNCHANGED <<threadId, saver, loop>>
       ELSE /\ saver' = [saver EXCEPT ![c] = NewSaver]
            /\ gw' = [gw EXCEPT ![c] = "graph"]
            /\ UNCHANGED <<events, delivered>>
    /\ UNCHANGED <<threadId, loop, stream, stepCount, trace, connected, notices,
                   offSupport>>

\* handleMessage from the return of 'await graph()' to 'await graph.stream':
\* uuidv4(), graph.stream(input, thread_id).  The run starts from the given
\* input at the graph's entry, with that input checkpointed.
StreamStart(c) ==
    /\ gw[c] = "graph"
    /\ LET input == InitialInput(ExtractMessage(payload[c]))
       IN /\ threadId' = [threadId EXCEPT ![c] = Uuid(c)]
          /\ saver' = [saver EXCEPT ![c] =
                         Put(@, Checkpoint(Uuid(c), input, EntryNode))]
          /\ loop' = [loop EXCEPT ![c] =
                        [NoLoop EXCEPT !.phase = "task", !.node = EntryNode,
                                       !.values = input]]
          /\ gw' = [gw EXCEPT ![c] = "streaming"]
    /\ UNCHANGED <<payload, stream, stepCount, events, trace, delivered, clientVars,
                   offSupport>>

\* The state a stage of call c's run is given: that of the call's own run.
RunStateOfFirst(c) == loop[1].values
RunState(c) == loop[c].values

\* The values the router reads: the state with the task's writes applied.
TaskValues(state, result, keep) ==
    IF result.kind = "update" THEN ApplyUpdate(state, result, keep) ELSE state

\* The values a run holds after a task: the task's writes are applied only
\* when the whole task (stage function and edge) succeeded.
CommitValues(state, merged, ok) == IF ok THEN merged ELSE state

\* The stream hands its chunks over in the order the run yielded them.
YieldFront(queue, chunk) == <<chunk>> \o queue
Yield(queue, chunk) == Append(queue, chunk)

\* One step of the run: the stage function, then the stage's edge.  A stage
\* that throws, or whose router names no destination, fails the run; one that
\* raises the interrupt suspends it; neither leaves writes.  A stage that
\* succeeds has its writes saved under the thread id, with the stage to run
\* next, and yields its chunk.
RunTask(c, node, cat, result, route, keep, chunk) ==
    LET state == RunState(c)
        ok == result.kind = "update" /\ route.ok
        merged == TaskValues(state, result, keep)
    IN /\ trace' = [trace EXCEPT ![c] =
                      Append(@, Executed(node, state, cat,
                                 IF result.kind = "update" /\ ~route.ok
                                 THEN Throw("RoutingError") ELSE result))]
       /\ loop' = [loop EXCEPT ![c] =
            IF ok
            THEN [@ EXCEPT !.values = CommitValues(state, merged, ok),
                           !.node = route.dest,
                           !.phase = IF route.dest = END THEN "done" ELSE "task",
                           !.outcome = IF route.dest = END THEN "finished" ELSE "none"]
            ELSE [@ EXCEPT !.values = CommitValues(state, merged, ok),
                           !.phase = "done",
                           !.outcome = IF result.kind = "interrupt"
                                       THEN "interrupted" ELSE "error",
                           !.error = IF result.kind = "update"
                                     THEN "RoutingError" ELSE result.error]]
       /\ saver' = [saver EXCEPT ![c] =
            IF ok
            THEN Put(@, Checkpoint(threadId[c], CommitValues(state, merged, ok), route.dest))
            ELSE @]
       /\ stream' = [stream EXCEPT ![c] =
            IF ok THEN Yield(@, Chunk(node, result))
            ELSE IF result.kind = "interrupt" /\ chunk
                 THEN Yield(@, InterruptChunk) ELSE @]
       /\ UNCHANGED <<gw, payload, threadId, stepCount, events, delivered,
                      clientVars, offSupport>>

Ready(c, node) == loop[c].phase = "task" /\ loop[c].node = node

InitialSupport(c) ==
    /\ Ready(c, "initial_support")
    /\ \E resp \in ModelReplies, cat \in CatReplies, keep \in BOOLEAN :
         LET result == initialSupport(RunState(c), resp, cat)
             after == TaskValues(RunState(c), result, keep)
         IN RunTask(c, "initial_support", cat.content, result,
                    Route(InitialSupportEnds, routeInitialSupport(after)),
                    keep, FALSE)

BillingSupport(c) ==
    /\ Ready(c, "billing_support")
    /\ \E resp \in ModelReplies, cat \in BillingCatReplies, keep \in BOOLEAN :
         LET result == billingSupport(RunState(c), resp, cat)
             after == TaskValues(RunState(c), result, keep)
         IN RunTask(c, "billing_support", cat.content, result,
                    Route(BillingSupportEnds, routeBillingSupport(after)),
                    keep, FALSE)

TechnicalSupport(c) ==
    /\ Ready(c, "technical_support")
    /\ \E resp \in ModelReplies :
         RunTask(c, "technical_support", NoCat,
                 technicalSupport(RunState(c), resp),
                 [ok |-> TRUE, dest |-> END], TRUE, FALSE)

\* A suspended run yields an __interrupt__ chunk or nothing, as the library
\* release decides.
HandleRefund(c) ==
    /\ Ready(c, "handle_refund")
    /\ \E chunk \in BOOLEAN :
         RunTask(c, "handle_refund", NoCat, handleRefund(RunState(c)),
                 [ok |-> TRUE, dest |-> END], TRUE, chunk)

\* One turn of 'for await (const step of stream)'.
StreamStep(c) ==
    /\ gw[c] = "streaming"
    /\ stream[c] # <<>>
    /\ stepCount' = [stepCount EXCEPT ![c] = @ + 1]
    /\ Emit(c, ResponseEvent(threadId[c], stepCount[c] + 1, Head(stream[c])))
    /\ stream' = [stream EXCEPT ![c] = Tail(@)]
    /\ UNCHANGED <<gw, payload, threadId, saver, loop, trace, clientVars, offSupport>>

\* The stream is exhausted: it ends (a finished or a suspended run) and the
\* call emits 'completed', or it throws the run's error and the call emits
\* 'error'.  The call returns; its graph and saver go with it.
StreamEnd(c) ==
    /\ gw[c] = "streaming"
    /\ stream[c] = <<>>
    /\ loop[c].phase = "done"
    /\ Emit(c, IF loop[c].outcome = "error"
                THEN ErrorEvent("Failed to process message", loop[c].error)
                ELSE CompletedEvent(threadId[c], stepCount[c]))
    /\ gw' = [gw EXCEPT ![c] = "returned"]
    /\ saver' = [saver EXCEPT ![c] = Drop(@)]
    /\ UNCHANGED <<payload, threadId, loop, stream, stepCount, trace, clientVars,
                   offSupport>>

\* A socket connects to the namespace: the server has given it the next id
\* and added it to the namespace's sockets, and handleConnection emits the
\* 'connection' event, which names the id, with this.server.emit.
\* (handleDisconnect only logs; the sockets are followed while connected.)
handleConnection(client) ==
    /\ Len(notices) < Len(ClientIds)
    /\ client = ClientIds[Len(notices) + 1]
    /\ connected' = connected \cup {client}
    /\ notices' = Append(notices, [event |-> ConnectionEvent(client),
                                   to |-> serverEmit(connected \cup {client})])
    /\ UNCHANGED <<gw, payload, threadId, saver, loop, stream, stepCount, events,
                   trace, sender, delivered, offSupport>>

NextSupport ==
    \/ \E client \in Clients : handleConnection(client)
    \/ \E c \in Calls :
          \/ \E client \in Clients, p \in Payloads : handleMessage(c, client, p)
          \/ StreamStart(c)
          \/ InitialSupport(c)
          \/ BillingSupport(c)
          \/ TechnicalSupport(c)
          \/ HandleRefund(c)
          \/ StreamStep(c)
          \/ StreamEnd(c)

\* ====================================================== promptChain
\* Texts are sequences of characters; only '?' and '!' matter to the gate.
JokeChars == {"a", "?", "!"}
RECURSIVE TextsOfLen(_)
TextsOfLen(n) ==
    IF n = 0 THEN {<<>>}
    ELSE {Append(t, ch) : t \in TextsOfLen(n - 1), ch \in JokeChars}
Texts(n) == UNION {TextsOfLen(k) : k \in 0..n}

\* A state field that is undefined until a stage writes it.
Undefined == [def |-> FALSE, text |-> <<>>]
Defined(text) == [def |-> TRUE, text |-> text]

\* String.prototype.includes for a one-character needle.
Includes(text, ch) == \E i \in 1..Len(text) : text[i] = ch
\* state.joke?.includes(ch): undefined when joke is undefined, hence falsy.
OptIncludes(field, ch) == field.def /\ Includes(field.text, ch)

\* A model call of promptChain: it fails or returns msg.content.
LlmFailure == [ok |-> FALSE, content |-> <<>>]
LlmReplies(n) == {LlmFailure} \cup {[ok |-> TRUE, content |-> t] : t \in Texts(n)}

\* chain.invoke({ topic: 'cats' })
ChainInput ==
    [topic |-> Defined(<<"c", "a", "t", "s">>), joke |-> Undefined,
     improvedJoke |-> Undefined, finalJoke |-> Undefined]

\* A promptChain stage returns one field, or throws.
FieldUpdate(field, text) == [kind |-> "update", field |-> field, text |-> text, error |-> "none"]
FieldThrow(err) == [kind |-> "throw", field |-> "none", text |-> <<>>, error |-> err]

generateJoke(state, msg) ==
    IF msg.ok THEN FieldUpdate("joke", msg.content) ELSE FieldThrow("ExternalCallFailure")

improveJoke(state, msg) ==
    IF msg.ok THEN FieldUpdate("improvedJoke", msg.content)
    ELSE FieldThrow("ExternalCallFailure")

polishJoke(state, msg) ==
    IF msg.ok THEN FieldUpdate("finalJoke", msg.content)
    ELSE FieldThrow("ExternalCallFailure")

checkPunchlineBang(state) ==
    IF OptIncludes(state.joke, "!") THEN "Pass" ELSE "Fail"

checkPunchline(state) ==
    IF OptIncludes(state.joke, "?") \/ OptIncludes(state.joke, "!")
    THEN "Pass"
    ELSE "Fail"

PromptChainEnds == [Pass |-> "improveJoke", End |-> END]

\* Every field of promptChain's state is a last-value field.
ApplyFieldAppend(state, upd) ==
    IF upd.kind = "update"
    THEN [state EXCEPT ![upd.field] = Defined(@.text \o upd.text)]
    ELSE state

ApplyField(state, upd) ==
    IF upd.kind = "update"
    THEN [state EXCEPT ![upd.field] = Defined(upd.text)]
    ELSE state

ChainStep(node, state, result) ==
    [node |-> node, before |-> state, kind |-> result.kind,
     text |-> result.text, error |-> result.error]

NoChain ==
    [phase |-> "none", node |-> START, values |-> ChainInput, path |-> <<>>,
     outcome |-> "none", error |-> "none"]

\* promptChain(): the graph is compiled and invoked on its input.
PromptChain ==
    /\ chain.phase = "none"
    /\ chain' = [chain EXCEPT !.phase = "task", !.node = "generateJoke"]
    /\ UNCHANGED offChain

\* promptChain's graph is compiled without a checkpointer: its run has no
\* thread and writes no checkpoint.
ChainSaver == NoSaver

\* One step of the run.
ChainTask(node, result, route) ==
    LET state == chain.values
        ok == result.kind = "update" /\ route.ok
        merged == ApplyField(state, result)
        failed == IF result.kind = "update" THEN FieldThrow("RoutingError") ELSE result
    IN /\ chain' =
            [chain EXCEPT
               !.path = Append(@, ChainStep(node, state,
                                    IF ok THEN result
                                    ELSE [failed EXCEPT !.text = result.text])),
               !.values = CommitValues(state, merged, ok),
               !.node = IF ok THEN route.dest ELSE @,
               !.phase = IF ok /\ route.dest # END THEN "task" ELSE "done",
               !.outcome = IF ok THEN (IF route.dest = END THEN "finished" ELSE "none")
                           ELSE "error",
               !.error = IF ok THEN "none" ELSE failed.error]
       /\ UNCHANGED offChain

ChainReady(node) == chain.phase = "task" /\ chain.node = node

GenerateJoke ==
    /\ ChainReady("generateJoke")
    /\ \E msg \in LlmReplies(MaxJokeLen) :
         LET result == generateJoke(chain.values, msg)
         IN ChainTask("generateJoke", result,
                      Route(PromptChainEnds,
                            checkPunchline(ApplyField(chain.values, result))))

ImproveJoke ==
    /\ ChainReady("improveJoke")
    /\ \E msg \in LlmReplies(1) :
         ChainTask("improveJoke", improveJoke(chain.values, msg),
                   [ok |-> TRUE, dest |-> "polishJoke"])

PolishJoke ==
    /\ ChainReady("polishJoke")
    /\ \E msg \in LlmReplies(1) :
         ChainTask("polishJoke", polishJoke(chain.values, msg),
                   [ok |-> TRUE, dest |-> END])

NextChain == PromptChain \/ GenerateJoke \/ ImproveJoke \/ PolishJoke

\* ====================================================== parallelization
\* parallelWorkflow.invoke({ topic: 'cats' })
ParInput ==
    [topic |-> Defined(<<"c", "a", "t", "s">>), joke |-> Undefined,
     story |-> Undefined, poem |-> Undefined, combinedOutput |-> Undefined]

callLlm1(state, msg) ==
    IF msg.ok THEN FieldUpdate("joke", msg.content) ELSE FieldThrow("ExternalCallFailure")

callLlm2(state, msg) ==
    IF msg.ok THEN FieldUpdate("story", msg.content) ELSE FieldThrow("ExternalCallFailure")

callLlm3(state, msg) ==
    IF msg.ok THEN FieldUpdate("poem", msg.content) ELSE FieldThrow("ExternalCallFailure")

\* `${state.story}`: an undefined field is spelled 'undefined'.
Interpolate(field) == IF field.def THEN field.text ELSE <<"undefined">>

aggregator(state) ==
    FieldUpdate("combinedOutput",
                <<"Here's a story, joke, and poem about ">> \o Interpolate(state.topic)
                    \o <<"STORY:">> \o Interpolate(state.story)
                    \o <<"JOKE:">> \o Interpolate(state.joke)
                    \o <<"POEM:">> \o Interpolate(state.poem))

ParEdges ==
    {<<START, "callLlm1">>, <<START, "callLlm2">>, <<START, "callLlm3">>,
     <<"callLlm1", "aggregator">>, <<"callLlm2", "aggregator">>,
     <<"callLlm3", "aggregator">>, <<"aggregator", END>>}

\* The stages the edges of `nodes` trigger: each once, however many edges lead to it.
Targets(edges, nodes) == {e[2] : e \in {d \in edges : d[1] \in nodes}} \ {END}

\* A step of a run ends when every stage started in it has returned.
StepDoneAny(running) == TRUE
StepDone(running) == running = {}

\* The writes of a step applied to last-value fields (one write per field).
ApplyWrites(values, writes) ==
    [f \in DOMAIN values |->
        IF \E w \in writes : w.field = f
        THEN Defined((CHOOSE w \in writes : w.field = f).text)
        ELSE values[f]]

NoPar ==
    [phase |-> "none", tasks |-> {}, running |-> {}, writes |-> {},
     values |-> ParInput, finished |-> <<>>, outcome |-> "none", error |-> "none"]

\* parallelization(): the graph is compiled and invoked; the stages the
\* entry edges name start together.
Parallelization ==
    /\ par.phase = "none"
    /\ par' = [par EXCEPT !.phase = "step",
                          !.tasks = Targets(ParEdges, {START}),
                          !.running = Targets(ParEdges, {START})]
    /\ UNCHANGED offParallel

\* A stage in progress returns.  A throw fails the run.  Otherwise its write
\* is held until the step ends; the step's writes are then applied and the
\* stages its edges name start.
ParFinish(node, result) ==
    LET state == par.values
        running == par.running \ {node}
        writes == par.writes \cup {result}
        next == Targets(ParEdges, par.tasks)
        entry == [node |-> node, seen |-> state, kind |-> result.kind,
                  text |-> result.text]
    IN /\ par' =
            IF result.kind = "throw"
            THEN [par EXCEPT !.finished = Append(@, entry), !.phase = "done",
                             !.outcome = "error", !.error = result.error]
            ELSE IF ~StepDone(running)
            THEN [par EXCEPT !.finished = Append(@, entry), !.running = running,
                             !.writes = writes]
            ELSE [par EXCEPT !.finished = Append(@, entry),
                             !.values = ApplyWrites(state, writes),
                             !.writes = {},
                             !.tasks = next,
                             !.running = next,
                             !.phase = IF next = {} THEN "done" ELSE "step",
                             !.outcome = IF next = {} THEN "finished" ELSE "none"]
       /\ UNCHANGED offParallel

ParRunning(node) == par.phase = "step" /\ node \in par.running

CallLlm1 ==
    /\ ParRunning("callLlm1")
    /\ \E msg \in LlmReplies(1) : ParFinish("callLlm1", callLlm1(par.values, msg))

CallLlm2 ==
    /\ ParRunning("callLlm2")
    /\ \E msg \in LlmReplies(1) : ParFinish("callLlm2", callLlm2(par.values, msg))

CallLlm3 ==
    /\ ParRunning("callLlm3")
    /\ \E msg \in LlmReplies(1) : ParFinish("callLlm3", callLlm3(par.values, msg))

Aggregator ==
    /\ ParRunning("aggregator")
    /\ ParFinish("aggregator", aggregator(par.values))

NextParallel == Parallelization \/ CallLlm1 \/ CallLlm2 \/ CallLlm3 \/ Aggregator

\* ====================================================== orchestratorWorker
\* A planned section is known by its position in the plan.
Plans == {[i \in 1..n |-> i] : n \in 0..MaxSections}
PlannerFailure == [ok |-> FALSE, sections |-> <<>>]
PlannerReplies == {PlannerFailure} \cup {[ok |-> TRUE, sections |-> p] : p \in Plans}

\* What a worker's model call returns: a text, here tagged with the section
\* the worker was given.
WorkerTexts == {"x", "y"}
WorkerFailure == [ok |-> FALSE, content |-> "none"]
WorkerReplies == {WorkerFailure} \cup {[ok |-> TRUE, content |-> t] : t \in WorkerTexts}
SectionText(section, content) == [section |-> section, content |-> content]

\* orchestratorWorker.invoke({ topic }): completedSections has the default [].
OrchInput ==
    [topic |-> "Create a report on LLM scaling laws", planned |-> FALSE,
     sections |-> <<>>, completedSections |-> <<>>,
     reported |-> FALSE, finalReport |-> <<>>]

\* The reducer of completedSections.
lastValue(a, b) == b
completedSectionsReducer(a, b) == a \o b

orchestrator(state, reportSections) ==
    IF reportSections.ok
    THEN [kind |-> "update", sections |-> reportSections.sections, error |-> "none"]
    ELSE [kind |-> "throw", sections |-> <<>>, error |-> "ExternalCallFailure"]

\* The worker stage, on the state its Send carries.
llmCallWorker(state, section) ==
    IF section.ok
    THEN [kind |-> "update",
          completedSections |-> <<SectionText(state.section, section.content)>>,
          error |-> "none"]
    ELSE [kind |-> "throw", completedSections |-> <<>>, error |-> "ExternalCallFailure"]

\* completedSections.join('\n\n---\n\n')
RECURSIVE Join(_)
Join(list) ==
    IF list = <<>> THEN <<>>
    ELSE IF Len(list) = 1 THEN <<list[1]>>
    ELSE <<list[1], "---">> \o Join(Tail(list))

synthesizer(state) == Join(state.completedSections)

\* state.sections.map((section) => new Send('llmCall', { section }))
Send(node, arg) == [node |-> node, arg |-> arg]
assignWorkers(state) ==
    [i \in 1..Len(state.sections) |-> Send("llmCall", [section |-> state.sections[i]])]

\* The writes of the workers of a step, applied in the order of their tasks.
RECURSIVE ApplyCompleted(_, _, _)
ApplyCompleted(acc, writes, i) ==
    IF i > Len(writes) THEN acc
    ELSE ApplyCompleted(completedSectionsReducer(acc, writes[i]), writes, i + 1)

NoOrch ==
    [phase |-> "none", stage |-> "none", sends |-> <<>>, running |-> {},
     writes |-> <<>>, values |-> OrchInput, finished |-> <<>>,
     outcome |-> "none", error |-> "none"]

\* orchestratorWorker(): the graph is compiled and invoked.
OrchestratorWorker ==
    /\ orch.phase = "none"
    /\ orch' = [orch EXCEPT !.phase = "step", !.stage = "orchestrator", !.running = {0}]
    /\ UNCHANGED offOrchestrator

OrchFail(err) ==
    [orch EXCEPT !.phase = "done", !.outcome = "error", !.error = err]

\* orchestrator, then its conditional edge: one llmCall task per Send, all
\* started together; no Send, no further stage.
Orchestrator ==
    /\ orch.phase = "step" /\ orch.stage = "orchestrator"
    /\ \E plan \in PlannerReplies :
         LET result == orchestrator(orch.values, plan)
             after == [orch.values EXCEPT !.planned = TRUE, !.sections = result.sections]
             sends == assignWorkers(after)
         IN orch' =
              IF result.kind = "throw" THEN OrchFail(result.error)
              ELSE IF sends = <<>>
              THEN [orch EXCEPT !.values = after, !.running = {}, !.phase = "done",
                                !.outcome = "finished"]
              ELSE [orch EXCEPT !.values = after, !.stage = "llmCall",
                                !.sends = sends,
                                !.running = DOMAIN sends,
                                !.writes = [i \in DOMAIN sends |-> <<>>]]
    /\ UNCHANGED offOrchestrator

\* The worker of the i-th Send returns.  When the last one has, the step's
\* writes go through the reducer and synthesizer starts.
LlmCall(i) ==
    /\ orch.phase = "step" /\ orch.stage = "llmCall"
    /\ i \in orch.running
    /\ \E msg \in WorkerReplies :
         LET result == llmCallWorker(orch.sends[i].arg, msg)
             running == orch.running \ {i}
             writes == [orch.writes EXCEPT ![i] = result.completedSections]
         IN orch' =
              IF result.kind = "throw" THEN OrchFail(result.error)
              ELSE IF ~StepDone(running)
              THEN [orch EXCEPT !.running = running, !.writes = writes,
                                !.finished = Append(@, i)]
              ELSE [orch EXCEPT !.writes = writes, !.finished = Append(@, i),
                                !.values.completedSections =
                                    ApplyCompleted(@, writes, 1),
                                !.stage = "synthesizer", !.running = {0}]
    /\ UNCHANGED offOrchestrator

Synthesizer ==
    /\ orch.phase = "step" /\ orch.stage = "synthesizer"
    /\ orch' = [orch EXCEPT !.values.reported = TRUE,
                            !.values.finalReport = synthesizer(orch.values),
                            !.running = {}, !.phase = "done", !.outcome = "finished"]
    /\ UNCHANGED offOrchestrator

NextOrchestrator ==
    \/ OrchestratorWorker
    \/ Orchestrator
    \/ \E i \in 1..MaxSections : LlmCall(i)
    \/ Synthesizer

\* ====================================================== agent stages
\* Messages of the agent graph.
HumanMessage(content) ==
    [role |-> "human", content |-> content, tool_calls |-> <<>>, tool_call_id |-> 0]
AIMessage(content, calls) ==
    [role |-> "ai", content |-> content, tool_calls |-> calls, tool_call_id |-> 0]
ToolMessage(content, id) ==
    [role |-> "tool", content |-> content, tool_calls |-> <<>>, tool_call_id |-> id]

\* A number a tool returns, as a quotient (a / b is not an integer in general;
\* a zero denominator is JavaScript's Infinity or NaN).
Quotient(num, den) == [num |-> num, den |-> den]
add(a, b) == Quotient(a + b, 1)
multiply(a, b) == Quotient(a * b, 1)
divide(a, b) == Quotient(a, b)

ToolNames == {"add", "multiply", "divide"}
\* toolsByName[name].invoke(args)
toolInvoke(name, args) ==
    CASE name = "add" -> add(args[1], args[2])
      [] name = "multiply" -> multiply(args[1], args[2])
      [] name = "divide" -> divide(args[1], args[2])

\* The tool calls the model asks for: a bound tool or a name it made up, on
\* 'Add 3 and 4.' or on a division by zero.
ToolCall(id, name, args) == [id |-> id, name |-> name, args |-> args]
CalledNames == ToolNames \cup {"sqrt"}
CalledArgs == {<<3, 4>>, <<1, 0>>}
CallsAt(id) == {ToolCall(id, n, a) : n \in CalledNames, a \in CalledArgs}
ToolCallLists ==
    {<<>>} \cup {<<c>> : c \in CallsAt(1)}
           \cup {<<c, d>> : c \in CallsAt(1), d \in CallsAt(2)}

\* llmWithTools.invoke: it fails or returns an AI message.
AgentFailure == [ok |-> FALSE, message |-> AIMessage("none", <<>>)]
AgentReplies ==
    {AgentFailure} \cup {[ok |-> TRUE, message |-> AIMessage("answer", calls)] :
                            calls \in ToolCallLists}

MessagesUpdate(msgs) == [kind |-> "update", messages |-> msgs, error |-> "none"]
MessagesThrow(err) == [kind |-> "throw", messages |-> <<>>, error |-> err]

llmCall(state, result) ==
    IF result.ok THEN MessagesUpdate(<<result.message>>)
    ELSE MessagesThrow("ExternalCallFailure")

\* lastMessage instanceof AIMessage && lastMessage?.tool_calls?.length
AsksForTools(messages) ==
    /\ messages # <<>>
    /\ messages[Len(messages)].role = "ai"
    /\ messages[Len(messages)].tool_calls # <<>>

toolNodeFirstId(state) ==
    IF ~AsksForTools(state.messages) THEN MessagesUpdate(<<>>)
    ELSE LET calls == state.messages[Len(state.messages)].tool_calls
         IN IF \E i \in 1..Len(calls) : calls[i].name \notin ToolNames
            THEN MessagesThrow("TypeError")
            ELSE MessagesUpdate(
                    [i \in 1..Len(calls) |->
                        ToolMessage(toolInvoke(calls[i].name, calls[i].args),
                                    calls[1].id)])

\* One ToolMessage per tool call of the last message, in their order; a call
\* of a name that is no tool throws.
toolNode(state) ==
    IF ~AsksForTools(state.messages) THEN MessagesUpdate(<<>>)
    ELSE LET calls == state.messages[Len(state.messages)].tool_calls
         IN IF \E i \in 1..Len(calls) : calls[i].name \notin ToolNames
            THEN MessagesThrow("TypeError")
            ELSE MessagesUpdate(
                    [i \in 1..Len(calls) |->
                        ToolMessage(toolInvoke(calls[i].name, calls[i].args),
                                    calls[i].id)])

shouldContinueNever(state) == END
shouldContinue(state) ==
    IF AsksForTools(state.messages) THEN "Action" ELSE END

ShouldContinueEnds == ("Action" :> "tools") @@ (END :> END)

\* The state of the agent graph after a stage.
AgentApply(state, result) ==
    IF result.kind = "update"
    THEN [messages |-> messagesStateReducer(state.messages, result.messages)]
    ELSE state

\* agentBuilder.invoke({ messages })
AgentInput == [messages |-> <<HumanMessage("Add 3 and 4.")>>]

\* ====================================================== stage applications
\* Each stage function applied once, with the graph's merge, to a state its
\* graph can hand it.
\* States the support graph hands a stage: the user's message, then the
\* replies of the stages before it.
AssistantReplies ==
    {<<>>} \cup {<<Message("assistant", t)>> : t \in ReplyTexts}
           \cup {<<Message("assistant", t), Message("assistant", u)>> :
                    t \in ReplyTexts, u \in ReplyTexts}
SupportStates ==
    {[messages |-> <<Message("user", m)>> \o r, nextRepresentative |-> n,
      refundAuthorized |-> a] :
        m \in UserTexts, r \in AssistantReplies, n \in RoutedRepresentatives,
        a \in BOOLEAN}

\* States the agent graph hands llmCall and tools: the input; the input after
\* llmCall; that after tools.
AfterLlmCall ==
    {AgentApply(AgentInput, llmCall(AgentInput, r)) : r \in AgentReplies \ {AgentFailure}}
AfterTools ==
    {AgentApply(s, toolNode(s)) :
        s \in {x \in AfterLlmCall : AsksForTools(x.messages)
                                       /\ toolNode(x).kind = "update"}}
LlmCallStates == {AgentInput} \cup AfterTools
ToolsStates == {s \in AfterLlmCall : AsksForTools(s.messages)}

NoStage ==
    [stage |-> "none", kind |-> "none", before |-> NoValues, after |-> NoValues,
     input |-> <<>>]
Applied(stage, before, result, after) ==
    [stage |-> stage, kind |-> result.kind, before |-> before, after |-> after,
     input |-> ModelInput(stage, before)]

ApplyInitialSupport ==
    /\ st.stage = "none"
    /\ \E state \in SupportStates, resp \in ModelReplies, cat \in CatReplies, keep \in BOOLEAN :
           LET result == initialSupport(state, resp, cat)
           IN /\ st' = Applied("initial_support", state, result,
                               TaskValues(state, result, keep))
              /\ UNCHANGED offStages

ApplyBillingSupport ==
    /\ st.stage = "none"
    /\ \E state \in SupportStates, resp \in ModelReplies, cat \in CatReplies, keep \in BOOLEAN :
           LET result == billingSupport(state, resp, cat)
           IN /\ st' = Applied("billing_support", state, result,
                               TaskValues(state, result, keep))
              /\ UNCHANGED offStages

ApplyTechnicalSupport ==
    /\ st.stage = "none"
    /\ \E state \in SupportStates, resp \in ModelReplies :
           LET result == technicalSupport(state, resp)
           IN /\ st' = Applied("technical_support", state, result,
                               TaskValues(state, result, TRUE))
              /\ UNCHANGED offStages

ApplyHandleRefund ==
    /\ st.stage = "none"
    /\ \E state \in SupportStates :
           LET result == handleRefund(state)
           IN /\ st' = Applied("handle_refund", state, result,
                               TaskValues(state, result, TRUE))
              /\ UNCHANGED offStages

ApplyLlmCall ==
    /\ st.stage = "none"
    /\ \E state \in LlmCallStates, r \in AgentReplies :
           LET result == llmCall(state, r)
           IN /\ st' = Applied("llmCall", state, result, AgentApply(state, result))
              /\ UNCHANGED offStages

ApplyTools ==
    /\ st.stage = "none"
    /\ \E state \in ToolsStates :
           LET result == toolNode(state)
           IN /\ st' = Applied("tools", state, result, AgentApply(state, result))
              /\ UNCHANGED offStages

\* Message lists trimMessageHistory is applied to: up to two messages, each
\* a user's or an assistant's.
HistoryMessages ==
    {Message("user", m) : m \in UserTexts} \cup {Message("assistant", t) : t \in ReplyTexts}
Histories ==
    {<<>>} \cup {<<a>> : a \in HistoryMessages}
           \cup {<<a, b>> : a \in HistoryMessages, b \in HistoryMessages}

\* trimMessageHistory applied to a list: 'input' is what it returns; the list
\* itself is not changed (slice copies).
ApplyTrimMessageHistory ==
    /\ st.stage = "none"
    /\ \E messages \in Histories :
           /\ st' = [stage |-> "trimMessageHistory", kind |-> "update",
                     before |-> [NoValues EXCEPT !.messages = messages],
                     after |-> [NoValues EXCEPT !.messages = messages],
                     input |-> trimMessageHistory(messages)]
           /\ UNCHANGED offStages

NextStages ==
    \/ ApplyTrimMessageHistory
    \/ ApplyInitialSupport
    \/ ApplyBillingSupport
    \/ ApplyTechnicalSupport
    \/ ApplyHandleRefund
    \/ ApplyLlmCall
    \/ ApplyTools

\* ====================================================== routers
\* evaluatorOptimizer
routeJoke(state) ==
    CASE state.funnyOrNot = "funny" -> "Accepted"
      [] state.funnyOrNot = "not funny" -> "Rejected + Feedback"
      [] OTHER -> "undefined"

RouteJokeEnds ==
    ("Accepted" :> END) @@ ("Rejected + Feedback" :> "llmCallGenerator")

\* routing
routeDecisionFirst(state) == "llmCall1"
routeDecision(state) ==
    CASE state.decision = "story" -> "llmCall1"
      [] state.decision = "joke" -> "llmCall2"
      [] state.decision = "poem" -> "llmCall3"
      [] OTHER -> "undefined"

\* A list of targets stands for the table mapping each target to itself.
RouteDecisionEnds == [k \in {"llmCall1", "llmCall2", "llmCall3"} |-> k]

\* The grades and steps the structured (schema-checked) model output can hold.
Grades == {"funny", "not funny"}
Steps == {"poem", "story", "joke"}

NoRouting == [router |-> "none", input |-> "none", key |-> "none", ends |-> {"none"}]
Routing(router, input, key, ends) ==
    [router |-> router, input |-> input, key |-> key, ends |-> DOMAIN ends]

EvalCheckPunchline ==
    \E j \in Texts(MaxJokeLen) :
        /\ rt' = Routing("checkPunchline", j,
                         checkPunchline([ChainInput EXCEPT !.joke = Defined(j)]),
                         PromptChainEnds)
        /\ UNCHANGED offRouters

EvalRouteJoke ==
    \E g \in Grades :
        /\ rt' = Routing("routeJoke", <<g>>, routeJoke([funnyOrNot |-> g]), RouteJokeEnds)
        /\ UNCHANGED offRouters

EvalRouteDecision ==
    \E d \in Steps :
        /\ rt' = Routing("routeDecision", <<d>>, routeDecision([decision |-> d]),
                         RouteDecisionEnds)
        /\ UNCHANGED offRouters

EvalRouteInitialSupport ==
    \E r \in RoutedRepresentatives :
        /\ rt' = Routing("initial_support", <<r>>,
                         routeInitialSupport([NoValues EXCEPT !.nextRepresentative = r]),
                         InitialSupportEnds)
        /\ UNCHANGED offRouters

EvalRouteBillingSupport ==
    \E r \in RoutedRepresentatives :
        /\ rt' = Routing("billing_support", <<r>>,
                         routeBillingSupport([NoValues EXCEPT !.nextRepresentative = r]),
                         BillingSupportEnds)
        /\ UNCHANGED offRouters

NextRouters ==
    \/ EvalCheckPunchline
    \/ EvalRouteJoke
    \/ EvalRouteDecision
    \/ EvalRouteInitialSupport
    \/ EvalRouteBillingSupport

\* ====================================================== evaluatorOptimizer
\* compile() and invoke() are given no recursionLimit, so the graph library
\* counts the steps of a run against its default: a run that has a stage
\* left to run after that many steps is stopped with GraphRecursionError.
RecursionLimit == 25
LimitReached(steps) == steps >= RecursionLimit

\* optimizerWorkflow.invoke({ topic: 'Funrniture' })
OptInput == [topic |-> "Funrniture", joke |-> NULL, feedback |-> NULL, funnyOrNot |-> NULL]

\* this.llm.invoke: it fails or returns a joke.
JokeTexts == {"joke 1", "joke 2", "joke 3", "joke 4"}
JokeReplies == {[ok |-> FALSE, content |-> NULL]} \cup
               {[ok |-> TRUE, content |-> j] : j \in JokeTexts}
\* evaluator.invoke: it fails or returns an object of feedbackSchema.
FeedbackTexts == {"", "feedback 1", "feedback 2", "feedback 3", "feedback 4"}
GradeReplies == {[ok |-> FALSE, grade |-> NULL, feedback |-> NULL]} \cup
                {[ok |-> TRUE, grade |-> g, feedback |-> f] :
                    g \in Grades, f \in FeedbackTexts}

\* The prompt of the generator: with the feedback when state.feedback is truthy.
GeneratorPrompt(state) ==
    IF state.feedback \notin {NULL, ""}
    THEN <<"Write a joke about", state.topic, "feedback:", state.feedback>>
    ELSE <<"Write a joke about", state.topic>>

llmCallGenerator(state, msg) ==
    IF msg.ok THEN [kind |-> "update", writes |-> [joke |-> msg.content], error |-> "none"]
    ELSE [kind |-> "throw", writes |-> [joke |-> NULL], error |-> "ExternalCallFailure"]

llmCallEvaluator(state, grade) ==
    IF grade.ok
    THEN [kind |-> "update",
          writes |-> [funnyOrNot |-> grade.grade, feedback |-> grade.feedback],
          error |-> "none"]
    ELSE [kind |-> "throw", writes |-> [funnyOrNot |-> NULL], error |-> "ExternalCallFailure"]

\* The writes of a stage on the last-value fields of the state.
OptApply(state, result) ==
    IF result.kind = "update"
    THEN [f \in DOMAIN state |->
            IF f \in DOMAIN result.writes THEN result.writes[f] ELSE state[f]]
    ELSE state

NoOpt ==
    [phase |-> "none", node |-> START, values |-> OptInput, steps |-> 0,
     outcome |-> "none", error |-> "none"]

\* evaluatorOptimizer(): the graph is compiled and invoked on its input.
EvaluatorOptimizer ==
    /\ opt.phase = "none"
    /\ opt' = [opt EXCEPT !.phase = "task", !.node = "llmCallGenerator"]
    /\ UNCHANGED offOptimizer

\* One step of the run.  Nothing in the graph or in its state limits the
\* repeats of its cycle; the library's step count does: a run that has a
\* stage left to run when the limit is reached is stopped with
\* GraphRecursionError, and invoke rejects.
OptTask(result, route) ==
    LET ok == result.kind = "update" /\ route.ok
        steps == opt.steps + 1
        more == ok /\ route.dest # END
    IN /\ opt' =
            [opt EXCEPT
               !.steps = steps,
               !.values = CommitValues(opt.values, OptApply(opt.values, result), ok),
               !.node = IF ok THEN route.dest ELSE @,
               !.phase = IF more /\ ~LimitReached(steps) THEN "task" ELSE "done",
               !.outcome = IF ~ok THEN "error"
                           ELSE IF route.dest = END THEN "finished"
                           ELSE IF LimitReached(steps) THEN "error" ELSE "none",
               !.error = IF ~ok
                         THEN (IF result.kind = "update" THEN "RoutingError"
                               ELSE result.error)
                         ELSE IF more /\ LimitReached(steps)
                         THEN "GraphRecursionError" ELSE "none"]
       /\ UNCHANGED offOptimizer

LlmCallGenerator ==
    /\ opt.phase = "task" /\ opt.node = "llmCallGenerator"
    /\ \E msg \in JokeReplies :
         OptTask(llmCallGenerator(opt.values, msg),
                 [ok |-> TRUE, dest |-> "llmCallEvaluator"])

LlmCallEvaluator ==
    /\ opt.phase = "task" /\ opt.node = "llmCallEvaluator"
    /\ \E grade \in GradeReplies :
         LET result == llmCallEvaluator(opt.values, grade)
         IN OptTask(result, Route(RouteJokeEnds, routeJoke(OptApply(opt.values, result))))

NextOptimizer == EvaluatorOptimizer \/ LlmCallGenerator \/ LlmCallEvaluator

\* ====================================================== agent
NoAgent ==
    [phase |-> "none", node |-> START, values |-> AgentInput, turns |-> 0,
     last |-> "none", path |-> <<>>, outcome |-> "none", error |-> "none"]

\* agent(): the graph is compiled and invoked on its input.
Agent ==
    /\ agent.phase = "none"
    /\ agent' = [agent EXCEPT !.phase = "task", !.node = "llmCall"]
    /\ UNCHANGED offAgent

\* One step of the run.
AgentTask(node, result, route) ==
    LET ok == result.kind = "update" /\ route.ok
    IN /\ agent' =
            [agent EXCEPT
               !.values = CommitValues(agent.values, AgentApply(agent.values, result), ok),
               !.turns = IF node = "llmCall" THEN @ + 1 ELSE @,
               !.last = IF ok THEN node ELSE @,
               !.path = Append(@, node),
               !.node = IF ok THEN route.dest ELSE @,
               !.phase = IF ok /\ route.dest # END THEN "task" ELSE "done",
               !.outcome = IF ~ok THEN "error"
                           ELSE IF route.dest = END THEN "finished" ELSE "none",
               !.error = IF ok THEN "none"
                         ELSE IF result.kind = "update" THEN "RoutingError"
                         ELSE result.error]
       /\ UNCHANGED offAgent

AgentLlmCall ==
    /\ agent.phase = "task" /\ agent.node = "llmCall"
    /\ agent.turns < MaxTurns
    /\ \E r \in AgentReplies :
         LET result == llmCall(agent.values, r)
         IN AgentTask("llmCall", result,
                      Route(ShouldContinueEnds,
                            shouldContinue(AgentApply(agent.values, result))))

AgentTools ==
    /\ agent.phase = "task" /\ agent.node = "tools"
    /\ AgentTask("tools", toolNode(agent.values), [ok |-> TRUE, dest |-> "llmCall"])

NextAgent == Agent \/ AgentLlmCall \/ AgentTools

\* ====================================================== routing
\* routing(input): the texts a caller passes.
RoutingInputs == Texts(1)

\* router.invoke: it fails (the call, or the check against routeSchema) or
\* returns an object whose step is one of the schema's values.
RouterReplies == {[ok |-> FALSE, step |-> NULL]} \cup {[ok |-> TRUE, step |-> d] : d \in Steps}

llmCallRouter(state, decision) ==
    IF decision.ok
    THEN [kind |-> "update", writes |-> [decision |-> decision.step], error |-> "none"]
    ELSE [kind |-> "throw", writes |-> [decision |-> NULL], error |-> "ExternalCallFailure"]

\* llmCall1 (storyteller), llmCall2 (comedian), llmCall3 (poet): each writes
\* the model's reply to output.
WriteOutput(result) ==
    IF result.ok
    THEN [kind |-> "update", writes |-> [output |-> Defined(result.content)], error |-> "none"]
    ELSE [kind |-> "throw", writes |-> [output |-> Undefined], error |-> "ExternalCallFailure"]
llmCall1(state, result) == WriteOutput(result)
llmCall2(state, result) == WriteOutput(result)
llmCall3(state, result) == WriteOutput(result)

NoRw ==
    [phase |-> "none", node |-> START,
     values |-> [input |-> <<>>, decision |-> NULL, output |-> Undefined],
     path |-> <<>>, outcome |-> "none", error |-> "none"]

\* routing(input): the graph is compiled and invoked on { input }.
RoutingWorkflow ==
    /\ rw.phase = "none"
    /\ \E input \in RoutingInputs :
         rw' = [rw EXCEPT !.phase = "task", !.node = "llmCallRouter",
                          !.values = [@ EXCEPT !.input = input]]
    /\ UNCHANGED offRouting

\* One step of the run.
RwTask(node, result, route) ==
    LET ok == result.kind = "update" /\ route.ok
    IN /\ rw' =
            [rw EXCEPT
               !.path = Append(@, [node |-> node, kind |-> IF ok THEN "update" ELSE "throw",
                                   writes |-> result.writes]),
               !.values = CommitValues(rw.values, OptApply(rw.values, result), ok),
               !.node = IF ok THEN route.dest ELSE @,
               !.phase = IF ok /\ route.dest # END THEN "task" ELSE "done",
               !.outcome = IF ~ok THEN "error"
                           ELSE IF route.dest = END THEN "finished" ELSE "none",
               !.error = IF ok THEN "none"
                         ELSE IF result.kind = "update" THEN "RoutingError"
                         ELSE result.error]
       /\ UNCHANGED offRouting

RwReady(node) == rw.phase = "task" /\ rw.node = node

LlmCallRouter ==
    /\ RwReady("llmCallRouter")
    /\ \E decision \in RouterReplies :
         LET result == llmCallRouter(rw.values, decision)
         IN RwTask("llmCallRouter", result,
                   Route(RouteDecisionEnds, routeDecision(OptApply(rw.values, result))))

LlmCall1 ==
    /\ RwReady("llmCall1")
    /\ \E result \in LlmReplies(2) :
         RwTask("llmCall1", llmCall1(rw.values, result), [ok |-> TRUE, dest |-> END])

LlmCall2 ==
    /\ RwReady("llmCall2")
    /\ \E result \in LlmReplies(2) :
         RwTask("llmCall2", llmCall2(rw.values, result), [ok |-> TRUE, dest |-> END])

LlmCall3 ==
    /\ RwReady("llmCall3")
    /\ \E result \in LlmReplies(2) :
         RwTask("llmCall3", llmCall3(rw.values, result), [ok |-> TRUE, dest |-> END])

NextRouting == RoutingWorkflow \/ LlmCallRouter \/ LlmCall1 \/ LlmCall2 \/ LlmCall3

\* ====================================================== gateway payloads
\* JavaScript values a client can send: undefined, strings, numbers, and
\* objects with a message and a data property (undefined when missing).
JsUndefined == [type |-> "undefined", text |-> "", num |-> 0]
JsString(text) == [type |-> "string", text |-> text, num |-> 0]
JsNumber(num) == [type |-> "number", text |-> "", num |-> num]
JsObject(message, data) == [type |-> "object", message |-> message, data |-> data]

\* !!v
Truthy(v) ==
    CASE v.type = "string" -> v.text # ""
      [] v.type = "number" -> v.num # 0
      [] v.type = "object" -> TRUE
      [] OTHER -> FALSE
\* a || b
Or(a, b) == IF Truthy(a) THEN a ELSE b
\* v?.message, v?.data
GetMessage(v) == IF v.type = "object" THEN v.message ELSE JsUndefined
GetData(v) == IF v.type = "object" THEN v.data ELSE JsUndefined

JsPrimitives ==
    {JsUndefined, JsString(""), JsString("hello"), JsNumber(0), JsNumber(123)}
JsDataValues == JsPrimitives \cup {JsObject(m, JsUndefined) : m \in JsPrimitives}
JsObjects == {JsObject(m, d) : m \in JsPrimitives, d \in JsDataValues}

\* JSON.parse of the string payloads tried: what it returns, or that it throws.
JsonTexts == {"", "hello", "123", "{}", "{\"message\":\"hello\"}"}
JsonParse(text) ==
    CASE text = "123" -> [ok |-> TRUE, value |-> JsNumber(123)]
      [] text = "{}" -> [ok |-> TRUE, value |-> JsObject(JsUndefined, JsUndefined)]
      [] text = "{\"message\":\"hello\"}" ->
            [ok |-> TRUE, value |-> JsObject(JsString("hello"), JsUndefined)]
      [] OTHER -> [ok |-> FALSE, value |-> JsUndefined]

ClientPayloads ==
    {JsUndefined, JsNumber(0), JsNumber(123)}
        \cup {JsString(t) : t \in JsonTexts} \cup JsObjects

\* The streaming gateway ('message'): the message it extracts and its test.
StreamMessage(body) ==
    IF body.type = "string"
    THEN LET parsed == JsonParse(body.text)
         IN IF parsed.ok
            THEN Or(Or(GetMessage(GetData(parsed.value)), GetMessage(parsed.value)),
                    parsed.value)
            ELSE body
    ELSE Or(Or(GetMessage(GetData(body)), GetMessage(body)), body)
StreamRejects(message) == ~Truthy(message) \/ message.type # "string"

\* The invoking gateway ('customer-support-chatbot'): the message it extracts
\* and its test.
InvokeMessage(data) ==
    IF data.type = "string" THEN data ELSE Or(GetMessage(data), GetData(data))
InvokeRejects(message) == ~Truthy(message)

NoGate ==
    [handler |-> "none", payload |-> JsUndefined, message |-> JsUndefined,
     event |-> "none", graph |-> FALSE, returned |-> FALSE]
\* What handleMessage has done once its payload test is passed or failed: a
\* rejected payload gets the error event and the handler returns; otherwise
\* graph() is called.
Tested(handler, body, message, rejects) ==
    [handler |-> handler, payload |-> body, message |-> message,
     event |-> IF rejects THEN "error" ELSE "none",
     graph |-> ~rejects, returned |-> rejects]

HandleMessageStream ==
    /\ gate.handler = "none"
    /\ \E body \in ClientPayloads :
         LET message == StreamMessage(body)
         IN gate' = Tested("message", body, message, StreamRejects(message))
    /\ UNCHANGED offGate

HandleMessageInvoke ==
    /\ gate.handler = "none"
    /\ \E data \in ClientPayloads :
         LET message == InvokeMessage(data)
         IN gate' = Tested("customer-support-chatbot", data, message,
                           InvokeRejects(message))
    /\ UNCHANGED offGate

NextGate == HandleMessageStream \/ HandleMessageInvoke

\* ====================================================== merges
\* Retriever.GraphState: the reducer of its messages field.
retrieverMessagesReducer(x, y) == x \o y

\* Values of the append-policy fields, and the deltas merged into them.
MessageLists == {x.messages : x \in SupportStates}
MessageDeltas == {<<>>} \cup {<<Message("assistant", t)>> : t \in ReplyTexts}
SectionTexts == {SectionText(i, t) : i \in 1..MaxSections, t \in WorkerTexts}
SectionLists ==
    {<<>>} \cup {<<a>> : a \in SectionTexts}
           \cup {<<a, b>> : a \in SectionTexts, b \in SectionTexts}
SectionDeltas == {<<>>} \cup {<<a>> : a \in SectionTexts}
\* States of promptChain (last-value fields) and the updates of its joke.
JokeStates ==
    {[ChainInput EXCEPT !.joke = j] : j \in {Undefined} \cup {Defined(t) : t \in Texts(1)}}
JokeUpdates == {FieldUpdate("joke", t) : t \in Texts(1)}

NoMerge ==
    [policy |-> "none", field |-> "none", before |-> <<>>, delta |-> <<>>,
     once |-> <<>>, twice |-> <<>>]
Merged(policy, field, before, delta, once, twice) ==
    [policy |-> policy, field |-> field, before |-> before, delta |-> delta,
     once |-> once, twice |-> twice]

MergeMessages ==
    \E left \in MessageLists, right \in MessageDeltas :
        /\ mg' = Merged("append", "messages", left, right,
                        messagesStateReducer(left, right),
                        messagesStateReducer(messagesStateReducer(left, right), right))
        /\ UNCHANGED offMerge

MergeRetrieverMessages ==
    \E left \in MessageLists, right \in MessageDeltas :
        /\ mg' = Merged("append", "Retriever.messages", left, right,
                        retrieverMessagesReducer(left, right),
                        retrieverMessagesReducer(retrieverMessagesReducer(left, right),
                                                 right))
        /\ UNCHANGED offMerge

MergeCompletedSections ==
    \E left \in SectionLists, right \in SectionDeltas :
        /\ mg' = Merged("append", "completedSections", left, right,
                        completedSectionsReducer(left, right),
                        completedSectionsReducer(completedSectionsReducer(left, right),
                                                 right))
        /\ UNCHANGED offMerge

MergeJoke ==
    \E state \in JokeStates, upd \in JokeUpdates :
        /\ mg' = Merged("replace", "joke", state, upd,
                        ApplyField(state, upd),
                        ApplyField(ApplyField(state, upd), upd))
        /\ UNCHANGED offMerge

NextMerge ==
    \/ MergeMessages
    \/ MergeRetrieverMessages
    \/ MergeCompletedSections
    \/ MergeJoke

\* ====================================================== specifications
Init ==
    /\ InitSupport
    /\ chain = NoChain
    /\ rt = NoRouting
    /\ par = NoPar
    /\ orch = NoOrch
    /\ st = NoStage
    /\ opt = NoOpt
    /\ agent = NoAgent
    /\ mg = NoMerge
    /\ rw = NoRw
    /\ gate = NoGate

SpecSupport == Init /\ [][NextSupport]_vars
SpecChain == Init /\ [][NextChain]_vars
SpecRouters == Init /\ [][NextRouters]_vars
SpecParallel == Init /\ [][NextParallel]_vars
SpecOrchestrator == Init /\ [][NextOrchestrator]_vars
SpecStages == Init /\ [][NextStages]_vars
SpecOptimizer == Init /\ [][NextOptimizer]_vars
SpecAgent == Init /\ [][NextAgent]_vars
SpecMerge == Init /\ [][NextMerge]_vars
SpecRouting == Init /\ [][NextRouting]_vars
SpecGate == Init /\ [][NextGate]_vars

\* ====================================================== properties
Nodes(seq) == [i \in 1..Len(seq) |-> seq[i].node]
Has(seq, x) == \E i \in 1..Len(seq) : seq[i] = x
RefundMessage == Message("assistant", RefundProcessed)

\* The thread's checkpoints that some live saver still holds.
Retrievable(thread) ==
    {cp \in UNION {saver[c].store : c \in {d \in Calls : saver[d].live}} :
        cp.thread_id = thread}

\* The values of the enumeration a stage's categorization is decoded against.
InitialSupportEnum == {"BILLING", "TECHNICAL", "RESPOND"}
BillingSupportEnum == {"REFUND", "RESPOND"}
StageEnum(node) ==
    IF node = "initial_support" THEN InitialSupportEnum ELSE BillingSupportEnum
Conforms(cat, enum) == cat.syntax /\ cat.has /\ cat.value \in enum
\* A stage execution whose model calls answered with a categorization that
\* does not decode against the stage's enumeration.
DecodeFails(e) ==
    /\ e.node \in {"initial_support", "billing_support"}
    /\ e.error # "ExternalCallFailure"
    /\ ~Conforms(e.cat, StageEnum(e.node))

\* C1: handle_refund run with refundAuthorized false raises the interrupt,
\* appends no message and changes no state field (the run's values and the
\* thread's checkpoint stay as they were); 'Refund processed!' is in messages
\* only if refundAuthorized was true when handle_refund ran.
C1_RefundGate ==
    \A c \in Calls :
        /\ \A i \in 1..Len(trace[c]) :
              (trace[c][i].node = "handle_refund" /\ ~trace[c][i].refundAuthorized)
                  => /\ trace[c][i].result = "interrupt"
                     /\ i = Len(trace[c])
                     /\ loop[c].outcome = "interrupted"
                     /\ loop[c].values = trace[c][i].before
                     /\ \A cp \in saver[c].store : cp.values = trace[c][i].before
        /\ \A cp \in saver[c].store \cup {[values |-> loop[c].values]} :
              Has(cp.values.messages, RefundMessage)
                  => \E i \in 1..Len(trace[c]) :
                        trace[c][i].node = "handle_refund" /\ trace[c][i].refundAuthorized

\* C1 witness: handle_refund has run without authorization and suspended the run.
C1_Witness ==
    \E c \in Calls :
        /\ loop[c].outcome = "interrupted"
        /\ trace[c][Len(trace[c])].node = "handle_refund"
        /\ ~trace[c][Len(trace[c])].refundAuthorized

\* The call that created the thread a payload names.
Owner(thread) == CHOOSE d \in Calls : threadId[d] = thread

\* C2: a call that supplies the id of a thread suspended at handle_refund,
\* with the authorization granted, runs on that thread, executes handle_refund
\* and nothing else, and ends completed with exactly one assistant message
\* more than the thread held at the interrupt.
C2_ResumeCompletes ==
    \A c \in Calls :
        (gw[c] = "returned" /\ payload[c].threadId # 0 /\ payload[c].authorization)
            => LET held == loop[Owner(payload[c].threadId)].values.messages
               IN /\ threadId[c] = payload[c].threadId
                  /\ Nodes(trace[c]) = <<"handle_refund">>
                  /\ loop[c].outcome = "finished"
                  /\ events[c][Len(events[c])].type = "completed"
                  /\ Len(loop[c].values.messages) = Len(held) + 1
                  /\ SubSeq(loop[c].values.messages, 1, Len(held)) = held
                  /\ loop[c].values.messages[Len(held) + 1].role = "assistant"

\* C3: a run suspended by the interrupt executes no further stage, and its
\* outcome is reported neither with 'completed' nor with 'error'.
C3_InterruptedIsDistinct ==
    \A c \in Calls :
        loop[c].outcome = "interrupted"
            => /\ loop[c].phase = "done"
               /\ trace[c][Len(trace[c])].result = "interrupt"
               /\ \A i \in 1..Len(events[c]) :
                     events[c][i].type \notin {"completed", "error"}

\* C4: once a thread has a checkpoint, its checkpoint stays retrievable under
\* its thread id (handleMessage writes the first one when it creates the thread).
C4_CheckpointRetained ==
    \A c \in Calls : threadId[c] # 0 => Retrievable(threadId[c]) # {}

\* C5: a categorization of initial_support that is malformed or outside
\* {BILLING, TECHNICAL, RESPOND} (a missing nextRepresentative included) fails
\* the stage with a decode error; it is never routed.
C5_DecodeErrorSurfaces ==
    \A c \in Calls : \A i \in 1..Len(trace[c]) :
        (trace[c][i].node = "initial_support" /\ DecodeFails(trace[c][i]))
            => /\ trace[c][i].result = "throw"
               /\ i = Len(trace[c])
               /\ loop[c].outcome = "error"

\* C6: when the categorization of initial_support or billing_support fails to
\* decode, the run's values are those from before the stage, and the thread
\* stays at that stage: its checkpoint remains retrievable, holds those
\* values and names the stage as the one to run.
C6_DecodeFailureKeepsThread ==
    \A c \in Calls : \A i \in 1..Len(trace[c]) :
        DecodeFails(trace[c][i])
            => /\ i = Len(trace[c])
               /\ loop[c].values = trace[c][i].before
               /\ Retrievable(threadId[c]) =
                     {Checkpoint(threadId[c], trace[c][i].before, trace[c][i].node)}

\* C7: for every conditional edge, the value its router returns is a key of
\* the edge's table (no table defines an unmapped value to terminate).
C7_RouterValuesMapped ==
    rt.router # "none" => rt.key \in rt.ends

\* The joke generateJoke was given by the model, when its call succeeded.
Generated == chain.path # <<>> /\ chain.path[1].error # "ExternalCallFailure"
HasPunchline(text) == Includes(text, "?") \/ Includes(text, "!")

\* C8: when the generated joke has neither '?' nor '!', the run executes
\* generateJoke only and ends at the terminal marker with no error.
C8_NoPunchlineEnds ==
    (Generated /\ ~HasPunchline(chain.path[1].text))
        => /\ Nodes(chain.path) = <<"generateJoke">>
           /\ chain.outcome = "finished"
           /\ chain.error = "none"

\* C9: when the generated joke has '?' or '!', the stages run in the order
\* generateJoke, improveJoke, polishJoke, each once, no routing fails, and a
\* run in which no model call failed ends completed after all three with
\* joke, improvedJoke and finalJoke set.
C9_PunchlinePath ==
    (Generated /\ HasPunchline(chain.path[1].text))
        => /\ Nodes(chain.path) =
                SubSeq(<<"generateJoke", "improveJoke", "polishJoke">>, 1, Len(chain.path))
           /\ chain.error # "RoutingError"
           /\ (chain.phase = "done" /\ chain.error = "none")
                 => /\ Len(chain.path) = 3
                    /\ chain.outcome = "finished"
                    /\ chain.node = END
                    /\ chain.values.joke = Defined(chain.path[1].text)
                    /\ chain.values.improvedJoke = Defined(chain.path[2].text)
                    /\ chain.values.finalJoke = Defined(chain.path[3].text)

\* C9 witness: a joke with a punchline went through all three stages.
C9_Witness ==
    /\ Generated /\ HasPunchline(chain.path[1].text)
    /\ chain.outcome = "finished"
    /\ Len(chain.path) = 3

\* C10: when a router returns a value absent from its edge table, the run
\* fails with the routing error and the state is the one from before the
\* stage that preceded the router: that stage's update is not in it, and the
\* checkpoint taken before that stage is kept.
C10_RoutingErrorKeepsState ==
    \A i \in 1..Len(chain.path) :
        (chain.path[i].kind = "throw" /\ chain.path[i].error = "RoutingError")
            => /\ i = Len(chain.path)
               /\ chain.phase = "done"
               /\ chain.outcome = "error"
               /\ chain.error = "RoutingError"
               /\ chain.values = chain.path[i].before
               /\ \E cp \in ChainSaver.store : cp.values = chain.path[i].before

\* ------------------------------------------------------------ C11 .. C20
\* The stages of a run that returned an update, in the order they ran.
CompletedStages(c) == SelectSeq(trace[c], LAMBDA e : e.result = "update")

\* C11: the state a run holds after each completed stage is in the thread's
\* checkpoint, with the stage to run next, by the time the stage's chunk is
\* yielded; and a call that restarts a thread (it names the thread's id)
\* starts at the stage that checkpoint names next and executes no stage the
\* thread had completed.
C11_CheckpointBeforeAdvance ==
    \A c \in Calls :
        /\ (gw[c] = "streaming")
              => \E cp \in saver[c].store :
                    /\ cp.thread_id = threadId[c]
                    /\ cp.values = loop[c].values
                    /\ cp.next = loop[c].node
        /\ (payload[c].threadId # 0 /\ trace[c] # <<>>)
              => LET o == Owner(payload[c].threadId)
                 IN /\ trace[c][1].node = loop[o].node
                    /\ \A i \in 1..Len(trace[c]), j \in 1..Len(CompletedStages(o)) :
                          trace[c][i].node # CompletedStages(o)[j].node

\* The response events of a call that name a stage, in the order sent.
InterruptLabel == Representative(INTERRUPT)
StageEvents(c) ==
    SelectSeq(events[c], LAMBDA e : /\ e.type = "response"
                                    /\ e.representative # InterruptLabel)
Labels(seq) == [i \in 1..Len(seq) |-> seq[i].representative]
StageLabels(seq) == [i \in 1..Len(seq) |-> Representative(seq[i].node)]

\* C12: the response events of a thread are those of the one call that runs
\* it, and they name the stages that completed, in the order they ran, one
\* event per stage, whatever other calls are in progress: a prefix of the
\* stages while the call is reading the stream, all of them once it has
\* returned.
C12_EventsInStageOrder ==
    \A c \in Calls :
        /\ \A d \in Calls : \A i \in 1..Len(events[d]) :
              (events[d][i].type = "response" /\ threadId[c] # 0
                  /\ events[d][i].threadId = threadId[c]) => d = c
        /\ LET sent == Labels(StageEvents(c))
               ran == StageLabels(CompletedStages(c))
           IN /\ Len(sent) <= Len(ran)
              /\ sent = SubSeq(ran, 1, Len(sent))
              /\ gw[c] = "returned" => sent = ran

\* C12 witness: two calls are in progress at once, each with events sent,
\* one of them with the events of two stages.
C12_Witness ==
    \E c, d \in Calls :
        /\ c # d
        /\ gw[c] = "streaming" /\ gw[d] = "streaming"
        /\ Len(StageEvents(c)) = 2
        /\ Len(StageEvents(d)) = 1
        /\ stream[d] # <<>>

Terminal(e) == e.type \in {"completed", "error"}

\* C13: a handled message has exactly one terminal event, 'completed' or
\* 'error', and it is the last event of the call: a call that has returned has
\* emitted response events followed by one terminal event, and a call that has
\* not returned has emitted response events only.
C13_OneTerminalEvent ==
    \A c \in Calls :
        /\ gw[c] = "returned"
              => /\ events[c] # <<>>
                 /\ Terminal(events[c][Len(events[c])])
                 /\ \A i \in 1..(Len(events[c]) - 1) : events[c][i].type = "response"
        /\ gw[c] # "returned"
              => \A i \in 1..Len(events[c]) : events[c][i].type = "response"

\* C13 witness: a run failed after a step event, and its call ended with 'error'.
C13_Witness ==
    \E c \in Calls :
        /\ gw[c] = "returned"
        /\ Len(events[c]) >= 2
        /\ events[c][Len(events[c])].type = "error"
        /\ events[c][1].type = "response"

Responses(c) == SelectSeq(events[c], LAMBDA e : e.type = "response")

\* C14: the k-th response event of a call carries stepCount k and the call's
\* thread id; the completed event carries that thread id and, as totalSteps,
\* the number of response events the call emitted.
C14_StepCounts ==
    \A c \in Calls :
        /\ \A k \in 1..Len(Responses(c)) :
              /\ Responses(c)[k].stepCount = k
              /\ Responses(c)[k].threadId = threadId[c]
              /\ threadId[c] # 0
        /\ \A i \in 1..Len(events[c]) :
              events[c][i].type = "completed"
                  => /\ events[c][i].threadId = threadId[c]
                     /\ events[c][i].stepCount = Len(Responses(c))

\* C14 witness: a call completed after two response events.
C14_Witness ==
    \E c \in Calls :
        /\ gw[c] = "returned"
        /\ Len(Responses(c)) = 2
        /\ events[c][3].type = "completed"

\* The values a run held after its i-th stage execution.
ValuesAfter(c, i) ==
    IF i < Len(trace[c]) THEN trace[c][i + 1].before ELSE loop[c].values

\* C19: refundAuthorized is false when a run starts and every stage of the
\* support graph leaves it as it found it.
C19_RefundAuthorizedFrame ==
    \A c \in Calls :
        /\ (loop[c].phase # "none" /\ trace[c] = <<>>)
              => ~loop[c].values.refundAuthorized
        /\ trace[c] # <<>> => ~trace[c][1].before.refundAuthorized
        /\ \A i \in 1..Len(trace[c]) :
              ValuesAfter(c, i).refundAuthorized = trace[c][i].before.refundAuthorized
        /\ \A cp \in saver[c].store : ~cp.values.refundAuthorized

\* C19 witness: the three stages of the refund path have run.
C19_Witness ==
    \E c \in Calls :
        Nodes(trace[c]) = <<"initial_support", "billing_support", "handle_refund">>

\* C20: a run of the support graph executes at most three stages, the first
\* of them initial_support, and none of them twice.
C20_BoundedRun ==
    \A c \in Calls :
        /\ Len(trace[c]) <= 3
        /\ trace[c] # <<>> => trace[c][1].node = "initial_support"
        /\ \A i, j \in 1..Len(trace[c]) : i # j => trace[c][i].node # trace[c][j].node
        /\ loop[c].phase = "task" => Len(trace[c]) < 3

\* C20 witness: a run ended after three stage executions.
C20_Witness ==
    \E c \in Calls :
        /\ Len(trace[c]) = 3
        /\ loop[c].phase = "done"
        /\ loop[c].outcome = "interrupted"

\* The stages in progress in the run of a graph.
ParInProgress == IF par.phase = "step" THEN par.running ELSE {}
OrchInProgress == IF orch.phase = "step" THEN orch.running ELSE {}

\* C15: no run has two stage functions in progress at once (parallelization,
\* orchestratorWorker), and no thread id is driven by two calls (support).
C15_OneStageAtATime ==
    /\ Cardinality(ParInProgress) <= 1
    /\ Cardinality(OrchInProgress) <= 1
    /\ \A c, d \in Calls : (threadId[c] # 0 /\ threadId[c] = threadId[d]) => c = d

ParBranches == {"callLlm1", "callLlm2", "callLlm3"}
AggregatorRuns == {i \in 1..Len(par.finished) : par.finished[i].node = "aggregator"}
\* The output of a branch that completed before position i of the run.
BranchOutput(node, i) ==
    {Defined(par.finished[j].text) :
        j \in {k \in 1..(i - 1) : /\ par.finished[k].node = node
                                  /\ par.finished[k].kind = "update"}}

\* C16: aggregator runs at most once, exactly once in a run that finishes,
\* and only after callLlm1, callLlm2 and callLlm3 have all completed, in
\* whatever order; the state it reads has joke, story and poem set to their
\* outputs.
C16_AggregatorAfterAll ==
    /\ Cardinality(AggregatorRuns) <= 1
    /\ par.outcome = "finished" => Cardinality(AggregatorRuns) = 1
    /\ "aggregator" \in ParInProgress
          => \A b \in ParBranches : BranchOutput(b, Len(par.finished) + 1) # {}
    /\ \A i \in AggregatorRuns :
          /\ BranchOutput("callLlm1", i) = {par.finished[i].seen.joke}
          /\ BranchOutput("callLlm2", i) = {par.finished[i].seen.story}
          /\ BranchOutput("callLlm3", i) = {par.finished[i].seen.poem}

\* C16 witness: the branches completed in an order other than that of their
\* declaration, and aggregator ran.
C16_Witness ==
    /\ par.outcome = "finished"
    /\ Nodes(par.finished) = <<"callLlm3", "callLlm1", "callLlm2", "aggregator">>

\* C17: once every llmCall worker has completed, in whatever order,
\* completedSections holds one entry per planned section: each worker's
\* output, once.
C17_NoSectionLost ==
    orch.stage = "synthesizer"
        => LET done == orch.values.completedSections
               planned == orch.values.sections
           IN /\ Len(done) = Len(planned)
              /\ \A i \in 1..Len(planned) :
                    /\ orch.writes[i] # <<>>
                    /\ Cardinality({k \in 1..Len(done) : done[k] = orch.writes[i][1]}) = 1
                    /\ Cardinality({k \in 1..Len(done) :
                                        done[k].section = planned[i]}) = 1

\* C17 witness: several workers completed, the first planned section not first.
C17_Witness ==
    /\ orch.stage = "synthesizer"
    /\ Len(orch.values.sections) >= 2
    /\ orch.finished[1] # 1

IsPrefix(a, b) == Len(a) <= Len(b) /\ a = SubSeq(b, 1, Len(a))

\* C18: for every stage of the support graph and of the agent graph, the
\* messages before the stage are a prefix of the messages after it.
C18_MessagesAppendOnly ==
    st.stage # "none" => IsPrefix(st.before.messages, st.after.messages)

\* C18 witness: tools added one message per tool call to a state that held two.
C18_Witness ==
    /\ st.stage = "tools"
    /\ Len(st.before.messages) = 2
    /\ Len(st.after.messages) = 4

C22_ResumeRoundTrip ==
    \A c \in Calls :
        (payload[c].threadId # 0 /\ trace[c] # <<>>)
            => LET o == Owner(payload[c].threadId)
               IN /\ trace[c][1].before = loop[o].values
                  /\ IsPrefix(loop[o].values.messages, loop[c].values.messages)

\* C23: merging an empty delta into an append-policy field (messages,
\* completedSections) leaves the field as it was, and merging the same value
\* twice into a replace-policy field gives the state that merging it once
\* gives.
C23_MergeIdempotence ==
    /\ (mg.policy = "append" /\ mg.delta = <<>>) => mg.once = mg.before
    /\ mg.policy = "replace" => mg.twice = mg.once

\* C23 witness: an empty delta was merged into completedSections holding two
\* sections.
C23_Witness ==
    /\ mg.field = "completedSections"
    /\ mg.delta = <<>>
    /\ Len(mg.before) = 2
    /\ mg.once = mg.before

\* The position of the nearest assistant message before position k (0: none).
NearestAssistant(msgs, k) ==
    LET before == {a \in 1..(k - 1) : msgs[a].role = "ai"}
    IN IF before = {} THEN 0 ELSE CHOOSE a \in before : \A b \in before : b <= a

\* C24: in the messages of the agent graph every tool-result message carries
\* the id of a tool call of the nearest assistant message before it, and after
\* the tools stage the messages end with one tool result per tool call of
\* that assistant message, in the order of the calls.
C24_ToolResultsMatchCalls ==
    LET msgs == agent.values.messages
    IN /\ \A k \in 1..Len(msgs) :
             msgs[k].role = "tool"
                => LET a == NearestAssistant(msgs, k)
                   IN /\ a > 0
                      /\ \E j \in 1..Len(msgs[a].tool_calls) :
                            msgs[a].tool_calls[j].id = msgs[k].tool_call_id
       /\ agent.last = "tools"
             => LET a == NearestAssistant(msgs, Len(msgs) + 1)
                    calls == msgs[a].tool_calls
                IN /\ a > 0
                   /\ Len(msgs) = a + Len(calls)
                   /\ \A j \in 1..Len(calls) :
                         /\ msgs[a + j].role = "tool"
                         /\ msgs[a + j].tool_call_id = calls[j].id
                         /\ msgs[a + j].content = toolInvoke(calls[j].name, calls[j].args)

\* C24 witness: the assistant asked for two tools twice, and tools answered
\* both times.
C24_Witness ==
    /\ agent.last = "tools"
    /\ Len(agent.values.messages) = 7
    /\ agent.values.messages[6].tool_call_id = 1
    /\ agent.values.messages[7].tool_call_id = 2

\* The values of nextRepresentative a run may hold after the stage execution
\* e, given what the stage read and the categorization it received.
OwnRepresentatives(e) ==
    LET parsed == JSONparse(e.cat)
    IN IF e.result = "update" /\ e.node \in {"initial_support", "billing_support"}
       THEN IF parsed.has THEN {parsed.nextRepresentative}
            ELSE {e.before.nextRepresentative, NULL}
       ELSE {e.before.nextRepresentative}

\* C25: runs that execute concurrently under distinct thread ids share no
\* conversation state: however their stages interleave, the first stage of a
\* run reads the input built from its own call's message, and every later
\* stage reads what the run's own previous stage left (its messages with that
\* stage's reply added, the nextRepresentative that stage decoded, the
\* refundAuthorized it found).
C25_RunsIsolated ==
    \A c \in Calls :
        loop[c].phase # "none"
            => /\ (IF trace[c] = <<>> THEN loop[c].values ELSE trace[c][1].before)
                      = InitialInput(payload[c].message)
               /\ \A d \in Calls : (d # c /\ threadId[d] # 0) => threadId[d] # threadId[c]
               /\ \A i \in 1..Len(trace[c]) :
                     LET e == trace[c][i]
                         after == ValuesAfter(c, i)
                     IN /\ IF e.result = "update"
                           THEN \E t \in ReplyTexts \cup {RefundProcessed} :
                                   after.messages =
                                       e.before.messages \o <<Message("assistant", t)>>
                           ELSE after.messages = e.before.messages
                        /\ after.nextRepresentative \in OwnRepresentatives(e)
                        /\ after.refundAuthorized = e.before.refundAuthorized

\* C25 witness: two calls are streaming at once, one run two stages in and
\* the other one stage in.
C25_Witness ==
    \E c, d \in Calls :
        /\ c # d
        /\ gw[c] = "streaming" /\ gw[d] = "streaming"
        /\ loop[c].phase = "task" /\ loop[d].phase = "task"
        /\ Len(trace[c]) = 2
        /\ Len(trace[d]) = 1

\* C26: a stage whose model call failed is a failed stage: it is the last
\* stage execution of its run (neither it nor a later stage runs after it),
\* the run ends in error holding the state the stage read, the stage yields
\* no chunk, and the call ends with an error event and no completed event.
C26_ModelFailurePropagates ==
    \A c \in Calls :
        \A i \in 1..Len(trace[c]) :
            trace[c][i].error = "ExternalCallFailure"
                => /\ trace[c][i].result = "throw"
                   /\ i = Len(trace[c])
                   /\ loop[c].phase = "done"
                   /\ loop[c].outcome = "error"
                   /\ loop[c].error = "ExternalCallFailure"
                   /\ loop[c].values = trace[c][i].before
                   /\ Len(Responses(c)) + Len(stream[c]) = i - 1
                   /\ \A cp \in saver[c].store : cp.values = trace[c][i].before
                   /\ \A k \in 1..Len(events[c]) : events[c][k].type # "completed"
                   /\ gw[c] = "returned"
                         => /\ events[c][Len(events[c])].type = "error"
                            /\ events[c][Len(events[c])].details = "ExternalCallFailure"

\* C26 witness: initial_support completed, the model call of billing_support
\* failed, and the call returned.
C26_Witness ==
    \E c \in Calls :
        /\ gw[c] = "returned"
        /\ Nodes(trace[c]) = <<"initial_support", "billing_support">>
        /\ trace[c][2].error = "ExternalCallFailure"
        /\ Len(events[c]) = 2
        /\ events[c][2].type = "error"

\* The stage a run went to after its i-th stage execution (END: none).
StageAfter(c, i) ==
    IF i < Len(trace[c]) THEN trace[c][i + 1].node ELSE loop[c].node

\* C27: after initial_support completes the run goes to billing_support
\* exactly when nextRepresentative is BILLING, to technical_support exactly
\* when it is TECHNICAL, and ends when it is RESPOND; after technical_support
\* completes the run ends.
C27_InitialSupportRouting ==
    \A c \in Calls :
        \A i \in 1..Len(trace[c]) :
            LET e == trace[c][i]
                rep == ValuesAfter(c, i).nextRepresentative
            IN /\ (e.node = "initial_support" /\ e.result = "update")
                    => /\ StageAfter(c, i) = "billing_support" <=> rep = "BILLING"
                       /\ StageAfter(c, i) = "technical_support" <=> rep = "TECHNICAL"
                       /\ rep = "RESPOND" => StageAfter(c, i) = END
                       /\ StageAfter(c, i) \in {"billing_support", "technical_support", END}
               /\ (e.node = "technical_support" /\ e.result = "update")
                    => /\ StageAfter(c, i) = END
                       /\ loop[c].outcome = "finished"

\* C27 witness: a run classified TECHNICAL went through technical_support
\* and ended.
C27_Witness ==
    \E c \in Calls :
        /\ Nodes(trace[c]) = <<"initial_support", "technical_support">>
        /\ trace[c][2].before.nextRepresentative = "TECHNICAL"
        /\ loop[c].outcome = "finished"

\* C28: handle_refund executes in a run exactly when billing_support
\* completed just before it in that run and set nextRepresentative to REFUND:
\* a REFUND decoded by initial_support ends the run, and technical_support is
\* never followed by handle_refund.
C28_RefundOnlyAfterBilling ==
    \A c \in Calls :
        \A i \in 1..Len(trace[c]) :
            LET e == trace[c][i]
                rep == ValuesAfter(c, i).nextRepresentative
            IN /\ e.node = "handle_refund"
                    => /\ i > 1
                       /\ trace[c][i - 1].node = "billing_support"
                       /\ trace[c][i - 1].result = "update"
                       /\ JSONparse(trace[c][i - 1].cat).nextRepresentative = "REFUND"
                       /\ e.before.nextRepresentative = "REFUND"
               /\ (e.node = "billing_support" /\ e.result = "update")
                    => (StageAfter(c, i) = "handle_refund" <=> rep = "REFUND")
               /\ (e.node = "initial_support" /\ e.result = "update" /\ rep = "REFUND")
                    => /\ StageAfter(c, i) = END
                       /\ Len(trace[c]) = 1
               /\ e.node = "technical_support" => StageAfter(c, i) # "handle_refund"

\* C28 witness: one run reached handle_refund through billing_support, and
\* another, classified REFUND by initial_support, ended there.
C28_Witness ==
    \E c, d \in Calls :
        /\ Nodes(trace[c]) = <<"initial_support", "billing_support", "handle_refund">>
        /\ trace[c][3].before.nextRepresentative = "REFUND"
        /\ Nodes(trace[d]) = <<"initial_support">>
        /\ loop[d].values.nextRepresentative = "REFUND"
        /\ loop[d].outcome = "finished"

SupportStages ==
    {"initial_support", "billing_support", "technical_support", "handle_refund"}

\* C29: a stage of the support graph that completes adds exactly one message,
\* an assistant's, to messages, and one that does not complete adds none; so
\* while a run is between stages its messages are the initial message and one
\* message per stage completed so far.
C29_OneMessagePerStage ==
    /\ st.stage \in SupportStages
          => IF st.kind = "update"
             THEN /\ Len(st.after.messages) = Len(st.before.messages) + 1
                  /\ SubSeq(st.after.messages, 1, Len(st.before.messages))
                        = st.before.messages
                  /\ st.after.messages[Len(st.after.messages)].role = "assistant"
             ELSE st.after.messages = st.before.messages
    /\ \A c \in Calls :
          loop[c].phase # "none"
             => Len(loop[c].values.messages) = 1 + Len(CompletedStages(c))

\* C29 witness: handle_refund, authorized, completed on a state holding two
\* messages.
C29_Witness ==
    /\ st.stage = "handle_refund"
    /\ st.kind = "update"
    /\ Len(st.before.messages) = 2
    /\ Len(st.after.messages) = 3

\* C30: trimMessageHistory returns its input without the last message exactly
\* when that message is an assistant's, and its input otherwise (the empty
\* list included); so what billing_support and technical_support send to the
\* model, after the system message, is the history without a trailing
\* assistant message; in a run they read the user's message followed by the
\* initial_support response, so their model input ends with the user's
\* message; and the messages of the state keep every message they held.
C30_TrimMessageHistory ==
    LET messages == st.before.messages
        trailing == messages # <<>> /\ messages[Len(messages)].role = "assistant"
        front == SubSeq(messages, 1, Len(messages) - 1)
    IN /\ st.stage = "trimMessageHistory"
             => /\ st.input = IF trailing THEN front ELSE messages
                /\ st.after.messages = messages
       /\ st.stage \in {"billing_support", "technical_support"}
             => /\ st.input = <<Message("system", st.stage)>>
                                 \o (IF trailing THEN front ELSE messages)
                /\ (Len(messages) = 2 /\ trailing)
                      => st.input[Len(st.input)] = messages[1]
                /\ IsPrefix(messages, st.after.messages)
       /\ \A c \in Calls :
             \A i \in 1..Len(trace[c]) :
                 trace[c][i].node \in {"billing_support", "technical_support"}
                    => /\ Len(trace[c][i].before.messages) = 2
                       /\ trace[c][i].before.messages[1].role = "user"
                       /\ trace[c][i].before.messages[2].role = "assistant"

\* C30 witness: billing_support completed on the state initial_support left
\* (the user's message, then its response) and sent the model two messages.
C30_Witness ==
    /\ st.stage = "billing_support"
    /\ st.kind = "update"
    /\ Len(st.before.messages) = 2
    /\ st.before.messages[2].role = "assistant"
    /\ Len(st.input) = 2
    /\ st.input[2].role = "user"

\* ------------------------------------------------------------ C31 .. C35
\* C31: in the agent graph llmCall and tools alternate, llmCall first: after
\* llmCall the run goes to tools exactly when the last message is an
\* assistant message with a tool call, and ends otherwise; tools is followed
\* by llmCall; a run that finished ended right after an llmCall whose
\* message has no tool call.
C31_AgentAlternates ==
    LET path == agent.path
        msgs == agent.values.messages
        ran == IF path = <<>> THEN "none" ELSE path[Len(path)]
    IN /\ path # <<>> => path[1] = "llmCall"
       /\ \A i \in 1..(Len(path) - 1) : path[i] # path[i + 1]
       /\ agent.phase = "task"
             => /\ agent.node \in {"llmCall", "tools"}
                /\ agent.node # ran
                /\ agent.node = "tools" <=> (ran = "llmCall" /\ AsksForTools(msgs))
       /\ (agent.last = "llmCall" /\ ~AsksForTools(msgs))
             => /\ agent.outcome = "finished"
                /\ ran = "llmCall"
       /\ agent.outcome = "finished"
             => /\ ran = "llmCall"
                /\ agent.node = END
                /\ msgs[Len(msgs)].role = "ai"
                /\ msgs[Len(msgs)].tool_calls = <<>>

\* C31 witness: the run went llmCall, tools, llmCall and finished.
C31_Witness ==
    /\ agent.outcome = "finished"
    /\ agent.path = <<"llmCall", "tools", "llmCall">>

\* The stage the routing graph runs for a decision.
BranchOf(decision) ==
    CASE decision = "story" -> "llmCall1"
      [] decision = "joke" -> "llmCall2"
      [] decision = "poem" -> "llmCall3"
      [] OTHER -> "none"

\* C32: in the routing graph llmCallRouter runs first, then exactly one of
\* llmCall1, llmCall2, llmCall3 runs and the run ends: llmCall1 when decision
\* is 'story', llmCall2 when 'joke', llmCall3 when 'poem'; the output of a
\* finished run is what that one stage wrote.
C32_OneBranchRuns ==
    LET path == rw.path
    IN /\ Len(path) <= 2
       /\ path # <<>> => path[1].node = "llmCallRouter"
       /\ (rw.phase = "task" /\ path # <<>>)
             => /\ Len(path) = 1
                /\ rw.node = BranchOf(rw.values.decision)
       /\ Len(path) = 2
             => /\ path[1].kind = "update"
                /\ path[2].node = BranchOf(rw.values.decision)
                /\ path[2].node \in {"llmCall1", "llmCall2", "llmCall3"}
                /\ rw.phase = "done"
       /\ rw.outcome = "finished"
             => /\ Len(path) = 2
                /\ path[2].kind = "update"
                /\ rw.node = END
                /\ rw.values.output.def
                /\ rw.values.output = path[2].writes.output
       /\ rw.values.output.def => rw.outcome = "finished"

\* C32 witness: the router decided 'poem', llmCall3 ran and the run finished
\* with its reply as output.
C32_Witness ==
    /\ rw.outcome = "finished"
    /\ rw.values.decision = "poem"
    /\ Nodes(rw.path) = <<"llmCallRouter", "llmCall3">>
    /\ Len(rw.values.output.text) = 2

\* C33: in the orchestrator-worker graph synthesizer executes exactly once
\* per run, for every number of planned sections (zero included), and only
\* after every llmCall worker that assignWorkers spawned has completed;
\* finalReport is then the join of all completedSections.
C33_SynthesizerOnce ==
    /\ orch.stage = "synthesizer"
          => /\ Len(orch.finished) = Len(orch.sends)
             /\ Len(orch.values.completedSections) = Len(orch.values.sections)
    /\ orch.outcome = "finished"
          => /\ orch.values.reported
             /\ orch.values.finalReport = Join(orch.values.completedSections)
             /\ Len(orch.values.completedSections) = Len(orch.values.sections)

\* A value that is a message a stage can be given: a non-empty string.
IsUsableMessage(v) == v.type = "string" /\ v.text # ""
\* The places a payload can carry its message: itself, its message, its
\* data, its data's message (for a string payload also those of its JSON).
Carried(body) ==
    LET of(v) == {v, GetMessage(v), GetData(v), GetMessage(GetData(v))}
    IN of(body) \cup
          (IF body.type = "string" /\ JsonParse(body.text).ok
           THEN of(JsonParse(body.text).value) ELSE {})

\* C34: a payload that carries no usable message (empty, missing or not a
\* string) makes handleMessage emit an error event and return without
\* creating a graph; no thread id is created and no stage runs for it.
C34_UnusablePayloadRejected ==
    /\ (gate.handler # "none" /\ \A v \in Carried(gate.payload) : ~IsUsableMessage(v))
          => /\ gate.event = "error"
             /\ gate.returned
             /\ ~gate.graph
    /\ \A c \in Calls :
          (gw[c] # "idle" /\ ~Usable(ExtractMessage(payload[c])))
             => /\ gw[c] = "returned"
                /\ threadId[c] = 0
                /\ trace[c] = <<>>
                /\ ~saver[c].live
                /\ Len(events[c]) = 1
                /\ events[c][1].type = "error"

\* The client whose message call c handles.
Sender(c) == sender[c]
\* The sockets the i-th event of call c was sent to.
Recipients(c, i) == delivered[c][i]
\* What client k has received: the events of the calls sent to it, and the
\* 'connection' events sent to it.
Observed(k) ==
    [calls |-> UNION {{<<c, i>> : i \in {j \in DOMAIN events[c] : k \in Recipients(c, j)}} :
                        c \in Calls},
     connections |-> {notices[i].event : i \in {j \in DOMAIN notices : k \in notices[j].to}}]

\* C35: the response, completed and error events of a call are delivered to
\* no client but the one that sent the call's message, so what a client
\* receives holds no event of a call another client sent.
C35_EventsToSenderOnly ==
    /\ \A c \in Calls : \A i \in DOMAIN events[c] : Recipients(c, i) \subseteq {Sender(c)}
    /\ \A k \in Clients : \A e \in Observed(k).calls : Sender(e[1]) = k

====
